---- MODULE Spec2Model ----
(***************************************************************************)
(* State-machine model of the devbox reconciler                            *)
(* (controllers/devbox/internal/controller/devbox_controller.go).          *)
(*                                                                         *)
(* One devbox and its child objects live in the control-plane store.  A    *)
(* reconciliation pass (Reconcile) is a sequence of steps, one per store   *)
(* call, so that tenant edits, kubelet updates, store failures and a       *)
(* controller restart can fall between any two calls of a pass.            *)
(*                                                                         *)
(* A retried read-modify-write (retry.RetryOnConflict around Get + modify  *)
(* + Update of the freshly fetched copy) is one step: every attempt        *)
(* re-reads the latest object and recomputes its change from it, so the    *)
(* attempt that succeeds is an atomic read-modify-write.                   *)
(***************************************************************************)
EXTENDS Naturals, Sequences, FiniteSets

\* ------------------------------------------------------------------ bounds
MaxPods == 2     \* pods the controller may create in one behaviour
MaxEvents == 1   \* tenant edits, restarts, failing store calls and runtime
                 \* changes in one behaviour, taken together
NumHosts == 2    \* distinct values rand.String(12) may produce
RetrySteps == 5  \* retry.DefaultRetry.Steps of client-go

PodIds == 1..MaxPods
NumPorts == 1    \* distinct node ports the platform may assign
MaxRtPorts == 2  \* ports a runtime may declare
MaxSets == 5     \* calls of AuthCache.Set in one behaviour
MaxClock == 2    \* ticks of the clock the AuthCache reads
MaxCapacity == 2 \* largest capacity an AuthCache is built with
MaxPasses == 2   \* passes of each of two devboxes of one namespace
Hosts == 1..NumHosts
NodePorts == 1..NumPorts

\* Value of svc for a stored service no node port has been assigned to yet.
Unassigned == NumPorts + 1

\* Lines 394-400: the first non-zero node port of the service's ports, else 0.
SvcPort(s) == IF s = Unassigned THEN 0 ELSE s

\* ---------------------------------------------------------------- objects
NoPods == [p \in {} |-> 0]

\* A devbox as stored (and as copied into the controller's memory).
\*   stNet/nodePort/ws: status.network; hist: status.commitHistory;
\*   lastTerm: pod whose container state is status.lastTerminationState;
\*   cst: status.state, the container state copied from a pod ("none" when
\*   empty), named by the pod phase it belongs to;
\*   shutdown: spec.autoShutdownSpec.enable.
NewDevbox(st, nt) ==
  [exists |-> TRUE, deleting |-> FALSE, fin |-> FALSE,
   state |-> st, net |-> nt, shutdown |-> FALSE,
   stNet |-> "", nodePort |-> 0, ws |-> 0,
   hist |-> << >>, lastTerm |-> 0, cst |-> "none"]

States == {"Running", "Stopped"}
NetTypes == {"NodePort", "WebSocket"}

\* generateDevboxPod + generateNextCommitHistory: the pod of generation g.
ExpectPod(g) ==
  [phase |-> "Pending", cs |-> FALSE, deleting |-> FALSE, fin |-> TRUE, gen |-> g]

\* generateNextCommitHistory: a Pending/Pending entry named after the pod.
NextCommitHistory(name, t) ==
  [pod |-> name, time |-> t, status |-> "Pending", pred |-> "Pending"]

SecretKeys == {"JWT_SECRET", "PUBLIC_KEY", "PRIVATE_KEY", "AUTHORIZED_KEYS"}

\* A stored secret is the set of the fields of its data, each a pair
\* <<key, value>>; a value is named by the number of the random draw that
\* produced it (rand.String, GenerateSSHKeyPair), 0 being the empty value.
NoSecret == {<<"absent", 0>>}

Keys(s) == {f[1] : f \in s}

\* devboxSecret.Data[k]: the empty value when the key is absent.
Value(s, k) == IF k \in Keys(s) THEN (CHOOSE f \in s : f[1] = k)[2] ELSE 0

\* Lines 205-218: the secret of a new devbox; one draw for the jwt secret,
\* one for the key pair, the public key also being the authorized key.
GenerateSecret(j, k) ==
  {<<"JWT_SECRET", j>>, <<"PUBLIC_KEY", k>>, <<"PRIVATE_KEY", k>>,
   <<"AUTHORIZED_KEYS", k>>}

\* Mutant of Backfill: the jwt secret is drawn anew on every pass.
BackfillRotating(s, j) ==
  {f \in s : f[1] # "JWT_SECRET"} \cup {<<"JWT_SECRET", j>>}
  \cup (IF "AUTHORIZED_KEYS" \in Keys(s) THEN {}
        ELSE {<<"AUTHORIZED_KEYS", Value(s, "PUBLIC_KEY")>>})

\* Lines 184-196: an absent jwt secret is drawn, an absent authorized key is
\* the public key; every other field is written back as it was read.
Backfill(s, j) ==
  s \cup (IF "JWT_SECRET" \in Keys(s) THEN {} ELSE {<<"JWT_SECRET", j>>})
    \cup (IF "AUTHORIZED_KEYS" \in Keys(s) THEN {}
          ELSE {<<"AUTHORIZED_KEYS", Value(s, "PUBLIC_KEY")>>})

\* The port lists a runtime may declare (spec.config.ports), each port named
\* by its container port.
RtPortLists == {[i \in 1..n |-> 8079 + i] : n \in 0..MaxRtPorts}

\* Lines 425-450, getServicePort: one service port per port of the runtime,
\* and the single port 22 when the runtime declares none.
ServicePorts(ports) == IF ports = << >> THEN <<22>> ELSE ports

\* Lines 370-377 and 764-771: the mutate function of the service upsert sets
\* the expected list on a service without ports, and otherwise overwrites
\* the first port only.
MutatePorts(stored, expect) ==
  IF stored = << >> THEN expect ELSE [stored EXCEPT ![1] = expect[1]]

\* Lines 614-627 and 667-680: what the pod template of the proxy deployment
\* takes from the devbox, the auto-shutdown setting.
NoTemplate == "none"

ProxyTemplate(d) == IF d.shutdown THEN "shutdown" ELSE "plain"

\* Lines 716-726: a proxy deployment that is found is left as it is stored.
KeptTemplate(stored, expect) == stored

\* The controller-owned fields of the network objects while none is stored:
\* the port lists of <name>-svc and <name>-pod-svc, the pod template of the
\* proxy deployment.
NoObjs == [svc |-> << >>, podSvc |-> << >>, tpl |-> NoTemplate]

\* ---------------------------------------------------------------- helpers
AddPod(ps, id, rec) ==
  [p \in (DOMAIN ps) \cup {id} |-> IF p = id THEN rec ELSE ps[p]]

DropPod(ps, id) == [p \in (DOMAIN ps) \ {id} |-> ps[p]]

\* helper.PodPhaseToCommitStatus
PodPhaseToCommitStatus(phase) ==
  CASE phase = "Pending" -> "Pending"
    [] phase = "Running" -> "Success"
    [] phase = "Succeeded" -> "Success"
    [] OTHER -> "Failed"

\* helper.UpdatePredicatedCommitStatus: the entry of this pod gets the status
\* predicted from the pod's phase.
UpdatePredicatedCommitStatus(hist, name, phase) ==
  [i \in DOMAIN hist |->
     IF hist[i].pod = name
     THEN [hist[i] EXCEPT !.pred = PodPhaseToCommitStatus(phase)]
     ELSE hist[i]]

\* helper.UpdateCommitHistory(devbox, pod, updateStatus)
UpdateCommitHistory(hist, name, updateStatus) ==
  [i \in DOMAIN hist |->
     IF hist[i].pod = name /\ updateStatus
     THEN [hist[i] EXCEPT !.status = hist[i].pred]
     ELSE hist[i]]

\* Mutant of PodMatchExpectations: no pod ever matches.
PodNeverMatches(g, pod) == FALSE

\* helper.PodMatchExpectations: the normalized pod spec is that of the
\* current runtime image.
PodMatchExpectations(g, pod) == pod.gen = g

HistPods(hist) == {hist[i].pod : i \in DOMAIN hist}

EntryOf(hist, name) == hist[CHOOSE i \in DOMAIN hist : hist[i].pod = name]

RECURSIVE NewEntries(_, _)
NewEntries(local, known) ==
  IF local = << >> THEN << >>
  ELSE IF Head(local).pod \in known THEN NewEntries(Tail(local), known)
       ELSE <<Head(local)>> \o NewEntries(Tail(local), known)

\* Mutant of MergeCommitHistory: the pass's new entries are put first.
PrependCommitHistory(local, latest) ==
  NewEntries(local, HistPods(latest))
  \o [i \in DOMAIN latest |->
       IF latest[i].pod \in HistPods(local)
       THEN EntryOf(local, latest[i].pod) ELSE latest[i]]

\* helper.UpdateDevboxStatus / MergeCommitHistory: the entries of the latest
\* copy, each replaced by the pass's entry for the same pod, followed by the
\* pass's entries the latest copy does not have.
MergeCommitHistory(local, latest) ==
  [i \in DOMAIN latest |->
     IF latest[i].pod \in HistPods(local)
     THEN EntryOf(local, latest[i].pod) ELSE latest[i]]
  \o NewEntries(local, HistPods(latest))

\* ------------------------------------------------------------------ state
VARIABLES
  dbx,          \* the stored devbox
  pods,         \* stored pods carrying the devbox's label set: name -> pod
  secret,       \* NoSecret or the set of fields of the secret's data; {} is
                \* a stored secret whose data map is nil
  svc,          \* node port of <name>-svc; 0 while the service is absent,
                \* Unassigned while it is stored without a node port
  podSvc,       \* <name>-pod-svc exists
  proxyDeploy,  \* <name>-proxy-deployment exists
  proxySvc,     \* <name>-proxy-svc exists
  ingress,      \* host of <name>-proxy-ingress; 0 while it is absent
  objs,         \* port lists of the two services, template of the deployment
  rt,           \* generation of the runtime's image
  rtPorts,      \* the ports the runtime declares
  pc,           \* position of the controller in the pass
  l,            \* the pass's local variables
  res,          \* how the last pass ended
  pair,         \* two devboxes of one namespace, their passes and objects
  ac,           \* the AuthCache of the devbox service
  env,          \* budgets used: [events, created]; full: the namespace has
                \* no quota left for a pod; rand: random values drawn so far
  obs           \* observation of the run, read by the properties only

vars == <<dbx, pods, secret, svc, podSvc, proxyDeploy, proxySvc, ingress,
          objs, rt, rtPorts, pair, ac, pc, l, res, env, obs>>

\* The state of the one devbox the passes of Next work on.
single == <<dbx, pods, secret, svc, podSvc, proxyDeploy, proxySvc, ingress,
            objs, rt, rtPorts, pc, l, res, env, obs>>

\* What the passes of that devbox never touch.
others == <<pair, ac>>

store ==
  <<dbx, pods, secret, svc, podSvc, proxyDeploy, proxySvc, ingress, objs>>

children == <<pods, secret, svc, podSvc, proxyDeploy, proxySvc, ingress, objs>>

\* ------------------------------------------------------------- AuthCache
\* (service/pkg/auth/cache.go)
\* A string is the sequence of the parts its hyphens separate, so that
\* joining two strings with a hyphen is the concatenation of the sequences.
Sprintf(kc, ns) == kc \o ns

NoEntries == [k \in {} |-> 0]

\* NewAuthCache: an empty map and an empty order list.
\*   cache: key -> time of its last Set; order: the list, front first;
\*   now: what time.Now() returns; sets: calls of Set so far;
\*   got: the key and the result of the last Get.
NewAuthCache(ttl, capacity) ==
  [cache |-> NoEntries, order |-> << >>, ttl |-> ttl, capacity |-> capacity,
   now |-> 0, sets |-> 0, got |-> << >>]

\* The cache while the model follows the devbox controller only.
NoCache == NewAuthCache(1, 1)

\* Two devboxes of one namespace: none while the model follows one devbox.
NoPair ==
  [dev |-> << >>, at |-> << >>, objs |-> {}, err |-> << >>, runs |-> << >>]

NoDbx == [NewDevbox("Stopped", "NodePort") EXCEPT !.exists = FALSE]

\* The pass's locals: devbox (the copy read at line 88 / 152) and whether its
\* resourceVersion is still the stored one, podList, the error syncPod is
\* about to return, the attempt of the RetryOnConflict loop around syncPod.
\* new / deletion: what line 88 read (no finalizer yet / deletion timestamp);
\* failed: a store call of this pass failed other than by a conflict;
\* quota: the create call of this pass failed with quota exceeded;
\* ports: servicePorts, what getServicePort returned to syncNetwork;
\* ev: the step events the pass has recorded on the devbox, in order.
L0 ==
  [dbx |-> NoDbx, fresh |-> FALSE, podList |-> NoPods, err |-> "nil",
   tries |-> 0, target |-> 0, new |-> FALSE, deletion |-> FALSE,
   failed |-> FALSE, quota |-> FALSE, ports |-> << >>, ev |-> << >>]

Init ==
  /\ \E st \in States, nt \in NetTypes : dbx = NewDevbox(st, nt)
  /\ pods = NoPods
  /\ secret = NoSecret
  /\ svc = 0
  /\ podSvc = FALSE
  /\ proxyDeploy = FALSE
  /\ proxySvc = FALSE
  /\ ingress = 0
  /\ objs = NoObjs
  /\ rt = 0
  /\ rtPorts = << >>
  /\ pair = NoPair
  /\ ac = NoCache
  /\ pc = "idle"
  /\ l = L0
  /\ res = "none"
  /\ env = [events |-> 0, created |-> 0, full |-> FALSE, rand |-> 0]
  /\ obs = [q |-> "no", finWrites |-> 0, crashed |-> "no", warn |-> FALSE,
            edit |-> FALSE]

\* ------------------------------------------------------------ bookkeeping
\* obs.q follows the passes: "run" = a pass is running and nothing outside it
\* has acted since it began; "yes" = the last pass ended without error and
\* nothing outside it has acted since it began; "rerun" = a pass begun in "yes".
Disturbed == [obs EXCEPT !.q = "no"]

End(r) == pc' = "done" /\ res' = r

Goto(p) == pc' = p /\ res' = res

Budget(f) == env[f]

Spend(f) == env' = [env EXCEPT ![f] = @ + 1]

MayHappen == Budget("events") < MaxEvents

\* r.Recorder.Eventf(devbox, ...): the event is added to those of the pass.
Eventf(loc, e) == [loc EXCEPT !.ev = Append(@, e)]

\* Lines 133-136, 142-145, 156-159: the Warning event of the step whose error
\* ends the pass at position p; the finalizer step and the deletion branch
\* record none.
FailedEvent(p) ==
  IF p = "secret" THEN <<"Sync secret failed">>
  ELSE IF p \in {"network", "np_upsert", "np_status", "ws_status", "ws_podsvc",
                 "ws_proxy", "ws_proxysvc", "ws_ingress", "ws_publish"}
       THEN <<"Sync network failed">>
  ELSE IF p \in {"sp_get", "sp_defer"} THEN <<"Sync pod failed">>
  ELSE << >>

\* The pass ends at position p with an error: the step's Warning event.
Failed(loc, p) == [loc EXCEPT !.ev = @ \o FailedEvent(p)]

\* Line 147: the success of the network step is logged, no event is recorded.
NetworkSucceeded(loc) == loc

\* Lines 155-162: what Reconcile records once syncPod has returned err for
\* the last time; a panic leaves Reconcile before it records anything.
PodEvent(err) ==
  IF err = "nil" THEN <<"Sync pod success">>
  ELSE IF err = "panic" THEN << >>
  ELSE <<"Sync pod failed">>

\* ------------------------------------------------------------- Reconcile
\* Mutant of NotFoundResult: the not-found error of line 88 is returned.
NotFoundReturned == "err"

\* Line 89: client.IgnoreNotFound(err) of a devbox that is not found.
NotFoundResult == "ok"

\* Lines 84-97, 113: read the devbox; absent is success.
Start ==
  /\ pc = "idle"
  /\ obs' = [obs EXCEPT !.q = IF obs.q = "yes" THEN "rerun" ELSE "run",
                        !.edit = FALSE]
  /\ IF ~dbx.exists
       THEN /\ l' = L0
            /\ End(NotFoundResult)
       ELSE /\ l' = [L0 EXCEPT !.dbx = dbx, !.fresh = TRUE,
                               !.new = ~dbx.fin, !.deletion = dbx.deleting]
            /\ pc' = IF dbx.deleting THEN "removeAll" ELSE "addFinalizer"
            /\ res' = "none"
  /\ UNCHANGED <<store, rt, rtPorts, others, env>>

\* Lines 98-112: retried read-modify-write on latestDevbox.  The pass's own
\* copy (devbox) is not refreshed, so it is stale once the finalizer is added.
\* A finalizer cannot be added to an object that is being deleted.
FinalizerSkipped(d) == d

\* Lines 105-106: controllerutil.AddFinalizer on latestDevbox, then Update.
FinalizerAdded(d) == [d EXCEPT !.fin = TRUE]

AddFinalizer ==
  /\ pc = "addFinalizer"
  /\ IF ~dbx.exists \/ dbx.fin
       THEN /\ Goto("mirror")
            /\ UNCHANGED <<dbx, l>>
       ELSE IF dbx.deleting
       THEN /\ End("err")
            /\ UNCHANGED <<dbx, l>>
       ELSE /\ dbx' = FinalizerAdded(dbx)
            /\ l' = [l EXCEPT !.fresh = FALSE]
            /\ Goto("mirror")
  /\ UNCHANGED <<children, rt, rtPorts, others, env, obs>>

\* Status().Update(ctx, devbox): the status of the pass's copy replaces the
\* stored status if the copy's resourceVersion is the stored one.
StatusUpdateOk == dbx.exists /\ l.fresh

\* The error of a refused update: a version conflict, or not found.
StatusErr == IF dbx.exists THEN "conflict" ELSE "err"

StatusWritten(d) ==
  [dbx EXCEPT !.stNet = d.stNet, !.nodePort = d.nodePort, !.ws = d.ws,
              !.hist = d.hist, !.lastTerm = d.lastTerm, !.cst = d.cst]

\* Lines 128-129: mirror the network type; the update's error is dropped.
Mirror ==
  /\ pc = "mirror"
  /\ LET d == [l.dbx EXCEPT !.stNet = l.dbx.net] IN
       /\ l' = [l EXCEPT !.dbx = d]
       /\ dbx' = IF StatusUpdateOk THEN StatusWritten(d) ELSE dbx
  /\ Goto("secret")
  /\ UNCHANGED <<children, rt, rtPorts, others, env, obs>>

\* Lines 168-228: create the secret, or backfill the two optional keys.  The
\* backfill assigns into devboxSecret.Data (lines 184, 191): with a nil data
\* map the assignment panics.
SyncSecret ==
  /\ pc = "secret"
  /\ IF secret = {}
       THEN /\ UNCHANGED <<secret, env, l>>
            /\ End("panic")
       ELSE IF secret = NoSecret
       THEN /\ secret' = GenerateSecret(env.rand + 1, env.rand + 2)
            /\ env' = [env EXCEPT !.rand = @ + 2]
            /\ l' = Eventf(l, "Sync secret success")
            /\ Goto("network")
       ELSE /\ secret' = Backfill(secret, env.rand + 1)
            /\ env' = [env EXCEPT !.rand = IF "JWT_SECRET" \in Keys(secret)
                                           THEN @ ELSE @ + 1]
            /\ l' = Eventf(l, "Sync secret success")
            /\ Goto("network")
  /\ UNCHANGED <<dbx, pods, svc, podSvc, proxyDeploy, proxySvc, ingress, objs,
                 rt, rtPorts, others, obs>>

\* Lines 452-464: read the runtime's ports, then dispatch on the network
\* type of the pass's copy.
SyncNetwork ==
  /\ pc = "network"
  /\ l' = [l EXCEPT !.ports = ServicePorts(rtPorts)]
  /\ Goto(IF l.dbx.net = "NodePort" THEN "np_upsert" ELSE "ws_status")
  /\ UNCHANGED <<store, rt, rtPorts, others, env, obs>>

\* Mutant of UpsertedNodePort: the first port is written without the node
\* port it had, and the platform has not assigned one again yet.
ReplacedNodePort(s) == Unassigned

\* Lines 373-376: the mutate function overwrites name, port, targetPort and
\* protocol of the first port as read from the store, and so sends back the
\* node port the port has.
UpsertedNodePort(s) == s

\* Lines 351-381: CreateOrUpdate of <name>-svc; the platform assigns the node
\* port when the service is created and keeps it on update.
NodePortUpsert ==
  /\ pc = "np_upsert"
  /\ objs' = [objs EXCEPT !.svc = MutatePorts(@, l.ports)]
  /\ \/ /\ IF svc = 0 THEN \E p \in NodePorts : svc' = p
                     ELSE svc' = UpsertedNodePort(svc)
        /\ UNCHANGED <<env, obs>>
     \* The platform stores the new service without a node port for now.
     \/ /\ svc = 0
        /\ MayHappen
        /\ Spend("events")
        /\ obs' = Disturbed
        /\ svc' = Unassigned
  /\ Goto("np_status")
  /\ UNCHANGED <<dbx, pods, secret, podSvc, proxyDeploy, proxySvc, ingress,
                 rt, rtPorts, others, l>>

\* Mutant of NodePortFound: any stored service counts as having its port.
NodePortAssumed(s) == s # 0

\* Lines 394-403: the re-read service exists and has a non-zero node port.
NodePortFound(s) == s # 0 /\ SvcPort(s) # 0

\* Lines 383-410: re-read the service and publish its node port.
NodePortStatus ==
  /\ pc = "np_status"
  /\ IF ~NodePortFound(svc)
       THEN /\ End("err")
            /\ l' = Failed(l, pc)
            /\ dbx' = dbx
       ELSE LET d == [l.dbx EXCEPT !.stNet = "NodePort",
                                  !.nodePort = SvcPort(svc)] IN
              IF StatusUpdateOk
              THEN /\ dbx' = StatusWritten(d)
                   /\ l' = NetworkSucceeded([l EXCEPT !.dbx = d])
                   /\ Goto("sp_get")
              ELSE /\ dbx' = dbx
                   /\ l' = Failed([l EXCEPT !.dbx = d], pc)
                   /\ End(StatusErr)
  /\ UNCHANGED <<children, rt, rtPorts, others, env, obs>>

\* Lines 467-470.
WebSocketStatus ==
  /\ pc = "ws_status"
  /\ LET d == [l.dbx EXCEPT !.stNet = "WebSocket"] IN
       IF StatusUpdateOk
       THEN /\ dbx' = StatusWritten(d)
            /\ l' = [l EXCEPT !.dbx = d]
            /\ Goto("ws_podsvc")
       ELSE /\ dbx' = dbx
            /\ l' = Failed([l EXCEPT !.dbx = d], pc)
            /\ End(StatusErr)
  /\ UNCHANGED <<children, rt, rtPorts, others, env, obs>>

\* Lines 742-778: CreateOrUpdate of <name>-pod-svc.
SyncPodSvc ==
  /\ pc = "ws_podsvc"
  /\ podSvc' = TRUE
  /\ objs' = [objs EXCEPT !.podSvc = MutatePorts(@, l.ports)]
  /\ Goto("ws_proxy")
  /\ UNCHANGED <<dbx, pods, secret, svc, proxyDeploy, proxySvc, ingress, rt,
                 rtPorts, others, l, env, obs>>

\* Lines 712-740: the proxy deployment exists iff the pass's copy is
\* Running; it is generated only when it is not found.
SyncProxyPod ==
  /\ pc = "ws_proxy"
  /\ proxyDeploy' = (l.dbx.state = "Running")
  /\ objs' = [objs EXCEPT !.tpl =
                IF l.dbx.state # "Running" THEN NoTemplate
                ELSE IF proxyDeploy THEN KeptTemplate(@, ProxyTemplate(l.dbx))
                ELSE ProxyTemplate(l.dbx)]
  /\ Goto("ws_proxysvc")
  /\ UNCHANGED <<dbx, pods, secret, svc, podSvc, proxySvc, ingress, rt,
                 rtPorts, others, l, env, obs>>

\* Lines 542-580: CreateOrUpdate of <name>-proxy-svc.
SyncProxySvc ==
  /\ pc = "ws_proxysvc"
  /\ proxySvc' = TRUE
  /\ Goto("ws_ingress")
  /\ UNCHANGED <<dbx, pods, secret, svc, podSvc, proxyDeploy, ingress, objs,
                 rt, rtPorts, others, l, env, obs>>

\* Lines 488-540: a fresh random host on every call; CreateOrUpdate reads an
\* existing ingress over the built object and its mutate function sets only
\* the owner reference, so an existing ingress keeps its host.  The host
\* returned is the fresh one (line 539), kept in the pass's copy (line 483).
SyncProxyIngress ==
  /\ pc = "ws_ingress"
  /\ \E host \in Hosts :
       /\ ingress' = IF ingress = 0 THEN host ELSE ingress
       /\ l' = [l EXCEPT !.dbx = [l.dbx EXCEPT !.ws = host]]
  /\ Goto("ws_publish")
  /\ UNCHANGED <<dbx, pods, secret, svc, podSvc, proxyDeploy, proxySvc, objs,
                 rt, rtPorts, others, env, obs>>

\* Line 485.
WebSocketPublish ==
  /\ pc = "ws_publish"
  /\ IF StatusUpdateOk
       THEN /\ dbx' = StatusWritten(l.dbx)
            /\ l' = NetworkSucceeded(l)
            /\ Goto("sp_get")
       ELSE /\ dbx' = dbx
            /\ l' = Failed(l, pc)
            /\ End(StatusErr)
  /\ UNCHANGED <<children, rt, rtPorts, others, env, obs>>

\* ---------------------------------------------------------------- syncPod
\* Mutant of ListPods: the list leaves out the pods marked for deletion.
ListLivePods(ps) == [n \in {m \in DOMAIN ps : ~ps[m].deleting} |-> ps[n]]

\* Line 234: r.List with the devbox's labels returns every stored pod that
\* carries them, the ones marked for deletion included.
ListPods(ps) == ps

\* Mutant of TooManyPods: the length of the list is not looked at.
AnyNumberOfPods(list) == FALSE

\* Lines 238-240: len(podList.Items) > 1.
TooManyPods(list) == Cardinality(DOMAIN list) > 1

\* Lines 151-154 and 233-241: re-read the devbox, list its pods; more than
\* one pod is an error returned before the deferred status update exists.
SyncPodGet ==
  /\ pc = "sp_get"
  /\ IF ~dbx.exists
       THEN /\ End("err")
            /\ l' = Failed(l, pc)
       ELSE LET loc == [l EXCEPT !.dbx = dbx, !.fresh = TRUE,
                                !.podList = ListPods(pods),
                                !.err = "nil", !.target = 0]
            IN IF TooManyPods(ListPods(pods))
               THEN l' = Failed(loc, pc) /\ End("err")
               ELSE l' = loc /\ Goto("sp_act")
  /\ UNCHANGED <<store, rt, rtPorts, others, env, obs>>

\* r.Update(ctx, pod) with the listed pod's finalizer removed: refused when
\* the stored pod is gone or is no longer the listed one.
PodUpdateErr(name) ==
  IF name \notin DOMAIN pods THEN "err"
  ELSE IF pods[name] # l.podList[name] THEN "conflict"
  ELSE "nil"

\* Lines 780-789: createPod; the entry is appended after the create call.
CreatePod(d, name) ==
  [d EXCEPT !.hist = Append(@, NextCommitHistory(name, name))]

\* Lines 809-820: handlePodDeleted after its pod update succeeded.  A pod
\* with no container status makes line 818 panic after line 817.
HandlePodDeleted(d, name, pod) ==
  IF pod.cs
  THEN [d EXCEPT !.hist = UpdateCommitHistory(@, name, TRUE), !.lastTerm = name]
  ELSE [d EXCEPT !.hist = UpdateCommitHistory(@, name, TRUE)]

\* Lines 803-805: deletePod after its delete call succeeded.  A pod with no
\* container status makes line 804 panic.
DeletePodRecord(d, name, pod) ==
  IF pod.cs
  THEN [d EXCEPT !.hist = UpdateCommitHistory(@, name, TRUE), !.lastTerm = name]
  ELSE d

\* Lines 299 and 336: status.state of the pass's copy is the first container
\* state of the pod when the devbox is Running, and empty when it is Stopped.
ContainerState(d, pod) == IF d.state = "Stopped" THEN "none" ELSE pod.phase

\* Mutant of PodDecision: the container-size check of line 294 comes before
\* the switch on the state, so it also guards the Stopped branch.
PodDecisionChecked(d, pod, g) ==
  IF ~pod.cs THEN "nocs"
  ELSE IF pod.deleting THEN "gone"
  ELSE IF d.state = "Stopped" THEN "delete"
  ELSE IF PodMatchExpectations(g, pod) /\ pod.phase \in {"Pending", "Running"}
       THEN "keep"
  ELSE "delete"

\* Lines 293-328 and 329-347: what syncPod does with the one listed pod.
\*   "nocs": return the container-size error; "gone": handlePodDeleted;
\*   "keep": steady state; "delete": deletePod.
PodDecision(d, pod, g) ==
  IF d.state = "Running" /\ ~pod.cs THEN "nocs"
  ELSE IF pod.deleting THEN "gone"
  ELSE IF d.state = "Stopped" THEN "delete"
  ELSE IF PodMatchExpectations(g, pod) /\ pod.phase \in {"Pending", "Running"}
       THEN "keep"
  ELSE "delete"

\* Mutant of SpecUpdateOk: the update is applied whatever the resourceVersion
\* of the pass's copy.
SpecUpdateForced == dbx.exists

\* Line 285: r.Update(ctx, devbox) is applied if the copy's resourceVersion is
\* the stored one.
SpecUpdateOk == dbx.exists /\ l.fresh

\* Lines 267-347 up to and including the first write of the pass's branch.
SyncPodAct ==
  /\ pc = "sp_act"
  /\ LET d == l.dbx
         names == DOMAIN l.podList
     IN
     IF names = {}
     THEN IF d.state = "Stopped"
          THEN /\ pc' = "sp_defer"
               /\ UNCHANGED <<dbx, pods, l, env, obs>>
          ELSE \/ /\ Budget("created") < MaxPods
                  /\ ~env.full
                  /\ LET name == Budget("created") + 1 IN
                       /\ pods' = AddPod(pods, name, ExpectPod(rt))
                       /\ l' = [l EXCEPT !.dbx = CreatePod(d, name)]
                  /\ Spend("created")
                  /\ pc' = "sp_defer"
                  /\ UNCHANGED <<dbx, obs>>
               \* Lines 281-287: quota exceeded; a warning event is recorded
               \* and spec.state is forced to Stopped by an update whose
               \* error is dropped.
               \/ /\ IF env.full
                       THEN /\ env' = env
                            /\ obs' = [obs EXCEPT !.warn = TRUE]
                       ELSE /\ MayHappen
                            /\ Spend("events")
                            /\ obs' = [Disturbed EXCEPT !.warn = TRUE]
                  /\ dbx' = IF SpecUpdateOk
                            THEN [dbx EXCEPT !.state = "Stopped"] ELSE dbx
                  /\ l' = [l EXCEPT !.dbx = [d EXCEPT !.state = "Stopped"],
                                    !.failed = TRUE, !.quota = TRUE]
                  /\ pc' = "sp_defer"
                  /\ pods' = pods
     ELSE LET name == CHOOSE n \in names : TRUE
              pod == l.podList[name]
              dec == PodDecision(d, pod, rt)
              d1 == [d EXCEPT !.hist = UpdatePredicatedCommitStatus(@, name, pod.phase),
                              !.cst = ContainerState(d, pod)]
          IN
          /\ UNCHANGED <<dbx, env, obs>>
          /\ CASE dec = "nocs" ->
                    /\ l' = [l EXCEPT !.err = "err"]
                    /\ pods' = pods
                    /\ pc' = "sp_defer"
               [] dec = "keep" ->
                    /\ l' = [l EXCEPT !.dbx = [d1 EXCEPT !.hist =
                                 UpdateCommitHistory(@, name, FALSE)]]
                    /\ pods' = pods
                    /\ pc' = "sp_defer"
               [] dec = "gone" ->
                    IF PodUpdateErr(name) # "nil"
                    THEN /\ l' = [l EXCEPT !.dbx = d1, !.err = PodUpdateErr(name)]
                         /\ pods' = pods
                         /\ pc' = "sp_defer"
                    ELSE /\ pods' = [pods EXCEPT ![name].fin = FALSE]
                         /\ l' = [l EXCEPT !.dbx = HandlePodDeleted(d1, name, pod),
                                           !.err = IF pod.cs THEN "nil" ELSE "panic"]
                         /\ pc' = "sp_defer"
               [] dec = "delete" ->
                    IF PodUpdateErr(name) # "nil"
                    THEN /\ l' = [l EXCEPT !.dbx = d1, !.err = PodUpdateErr(name)]
                         /\ pods' = pods
                         /\ pc' = "sp_defer"
                    ELSE /\ pods' = [pods EXCEPT ![name].fin = FALSE]
                         /\ l' = [l EXCEPT !.dbx = d1, !.target = name]
                         /\ pc' = "sp_del"
  /\ res' = res
  /\ UNCHANGED <<secret, svc, podSvc, proxyDeploy, proxySvc, ingress, objs,
                 rt, rtPorts, others>>

\* Lines 799-806: the delete call of deletePod and what follows it.
DeletePod ==
  /\ pc = "sp_del"
  /\ LET name == l.target
         pod == l.podList[name]
     IN
     IF name \notin DOMAIN pods
     THEN /\ l' = [l EXCEPT !.err = "err"]
          /\ pods' = pods
     ELSE /\ pods' = [pods EXCEPT ![name].deleting = TRUE]
          /\ l' = [l EXCEPT !.dbx = DeletePodRecord(l.dbx, name, pod),
                            !.err = IF pod.cs THEN "nil" ELSE "panic"]
  /\ Goto("sp_defer")
  /\ UNCHANGED <<dbx, secret, svc, podSvc, proxyDeploy, proxySvc, ingress,
                 objs, rt, rtPorts, others, env, obs>>

\* Lines 151-166: where the pass goes once syncPod has returned l.err.
AfterSyncPod(err, tries) ==
  IF err = "conflict" /\ tries + 1 < RetrySteps THEN "sp_get" ELSE "done"

\* Lines 244-265: the deferred status update, a retried read-modify-write of
\* the latest devbox; it runs on every return of syncPod, a panic included.
DeferredStatusUpdate ==
  /\ pc = "sp_defer"
  /\ dbx' = IF dbx.exists
            THEN [dbx EXCEPT !.hist = MergeCommitHistory(l.dbx.hist, dbx.hist),
                             !.lastTerm = l.dbx.lastTerm,
                             !.cst = l.dbx.cst]
            ELSE dbx
  /\ pc' = AfterSyncPod(l.err, l.tries)
  /\ res' = IF pc' = "done" THEN (IF l.err = "nil" THEN "ok" ELSE l.err) ELSE res
  /\ l' = [l EXCEPT !.fresh = FALSE,
                    !.tries = IF pc' = "done" THEN @ ELSE @ + 1,
                    !.ev = @ \o <<IF dbx.exists THEN "Sync pod success"
                                                ELSE "Sync pod failed">>
                             \o (IF pc' = "done" THEN PodEvent(l.err)
                                                 ELSE << >>)]
  /\ UNCHANGED <<children, rt, rtPorts, others, env, obs>>

\* --------------------------------------------------------------- removeAll
\* Lines 824-827: list the pods of the devbox.
RemoveAllList ==
  /\ pc = "removeAll"
  /\ l' = [l EXCEPT !.podList = ListPods(pods)]
  /\ Goto("ra_fin")
  /\ UNCHANGED <<store, rt, rtPorts, others, env, obs>>

\* The listed pods that still carry the controller's finalizer.
ToStrip(list) == {n \in DOMAIN list : list[n].fin}

\* Lines 828-834: strip the finalizer of the next listed pod that has one.
RemoveAllStrip ==
  /\ pc = "ra_fin"
  /\ IF ToStrip(l.podList) = {}
       THEN /\ Goto("ra_pods")
            /\ UNCHANGED <<pods, l>>
       ELSE LET name == CHOOSE n \in ToStrip(l.podList) :
                           \A m \in ToStrip(l.podList) : n <= m
            IN
            IF PodUpdateErr(name) # "nil"
            THEN /\ End(PodUpdateErr(name))
                 /\ UNCHANGED <<pods, l>>
            ELSE /\ pods' = [pods EXCEPT ![name].fin = FALSE]
                 /\ l' = [l EXCEPT !.podList = [@ EXCEPT ![name].fin = FALSE]]
                 /\ Goto("ra_fin")
  /\ UNCHANGED <<dbx, secret, svc, podSvc, proxyDeploy, proxySvc, ingress,
                 objs, rt, rtPorts, others, env, obs>>

\* Mutant of DeleteByLabelsErr: a bulk delete that finds nothing is an error.
NotFoundIsError(found) == IF found THEN "nil" ELSE "err"

\* Lines 846-852: deleteResourcesByLabels drops a not-found error, so a bulk
\* delete that finds nothing to delete returns nil.
DeleteByLabelsErr(found) == "nil"

\* Line 835: DeleteAllOf pods with the devbox's labels.
RemoveAllPods ==
  /\ pc = "ra_pods"
  /\ IF DeleteByLabelsErr(pods # NoPods) # "nil"
       THEN pods' = pods /\ End("err")
       ELSE /\ pods' = [n \in DOMAIN pods |-> [pods[n] EXCEPT !.deleting = TRUE]]
            /\ Goto("ra_svcs")
  /\ UNCHANGED <<dbx, secret, svc, podSvc, proxyDeploy, proxySvc, ingress,
                 objs, rt, rtPorts, others, l, env, obs>>

\* helper.GenerateProxyPodLabels: whether the labels of <name>-pod-svc and
\* <name>-proxy-svc match the selector built from the devbox's label set.
ProxyLabelsMatch == FALSE

\* Lines 838-841: DeleteAllOf services with the devbox's labels.
RemoveAllServices ==
  /\ pc = "ra_svcs"
  /\ IF DeleteByLabelsErr(svc # 0) # "nil"
       THEN /\ UNCHANGED <<svc, podSvc, proxySvc, objs>>
            /\ End("err")
       ELSE /\ svc' = 0
            /\ podSvc' = (podSvc /\ ~ProxyLabelsMatch)
            /\ objs' = [objs EXCEPT !.svc = << >>,
                          !.podSvc = IF ProxyLabelsMatch THEN << >> ELSE @]
            /\ proxySvc' = (proxySvc /\ ~ProxyLabelsMatch)
            /\ Goto("ra_secrets")
  /\ UNCHANGED <<dbx, pods, secret, proxyDeploy, ingress, rt, rtPorts, others,
                 l, env, obs>>

\* Mutant of SecretsDeleted: the bulk delete of secrets leaves the secret.
SecretsKept(s) == s

\* Line 843: what DeleteAllOf leaves of the secrets with the devbox's labels.
SecretsDeleted(s) == NoSecret

\* Line 843: DeleteAllOf secrets with the devbox's labels.
RemoveAllSecrets ==
  /\ pc = "ra_secrets"
  /\ IF DeleteByLabelsErr(secret # NoSecret) # "nil"
       THEN secret' = secret /\ End("err")
       ELSE secret' = SecretsDeleted(secret) /\ Goto("rm_fin")
  /\ UNCHANGED <<dbx, pods, svc, podSvc, proxyDeploy, proxySvc, ingress, objs,
                 rt, rtPorts, others, l, env, obs>>

\* Mutant of CleanupReturned: the finalizer is removed although the last bulk
\* delete of removeAll has not run.
CleanupUnchecked(p) == p \in {"ra_secrets", "rm_fin"}

\* Whether the pass may go on to remove the devbox's finalizer (line 115).
CleanupReturned(p) == p = "rm_fin"

\* Lines 119-125: remove the finalizer from the copy read at line 88 and
\* update; a devbox marked for deletion with no finalizer left is erased.
RemoveFinalizer ==
  /\ CleanupReturned(pc)
  /\ IF ~l.dbx.fin
       THEN /\ End("ok")
            /\ UNCHANGED <<dbx, obs>>
       ELSE IF StatusUpdateOk
       THEN /\ dbx' = NoDbx
            /\ obs' = [obs EXCEPT !.finWrites = IF @ < 2 THEN @ + 1 ELSE @]
            /\ End("ok")
       ELSE /\ End(StatusErr)
            /\ UNCHANGED <<dbx, obs>>
  /\ UNCHANGED <<children, rt, rtPorts, others, l, env>>

\* The pass has returned; the request is done (and may be queued again).
Finish ==
  /\ pc = "done"
  /\ pc' = "idle"
  /\ l' = L0
  /\ obs' = [obs EXCEPT !.q = IF res = "ok" /\ obs.q \in {"run", "rerun"}
                               THEN "yes" ELSE "no",
                        !.edit = FALSE]
  /\ UNCHANGED <<store, rt, rtPorts, others, res, env>>

\* ------------------------------------------------------------ environment
InPass == pc \notin {"idle", "done"}

\* A write to the stored devbox by anyone but the pass's own copy.
Outdated == [l EXCEPT !.fresh = FALSE]

\* The tenant edits spec.state and/or spec.networkSpec.type in one update.
TenantEdit ==
  /\ pc # "done"
  /\ dbx.exists /\ ~dbx.deleting
  /\ MayHappen
  /\ \E st \in States, nt \in NetTypes :
       /\ <<st, nt>> # <<dbx.state, dbx.net>>
       /\ dbx' = [dbx EXCEPT !.state = st, !.net = nt]
  /\ Spend("events")
  /\ l' = Outdated
  /\ obs' = [Disturbed EXCEPT !.edit = InPass /\ dbx'.state # dbx.state]
  /\ UNCHANGED <<children, rt, rtPorts, others, pc, res>>

\* The tenant switches spec.autoShutdownSpec.enable.
TenantEditsShutdown ==
  /\ pc # "done"
  /\ dbx.exists /\ ~dbx.deleting
  /\ MayHappen
  /\ dbx' = [dbx EXCEPT !.shutdown = ~@]
  /\ Spend("events")
  /\ l' = Outdated
  /\ obs' = Disturbed
  /\ UNCHANGED <<children, rt, rtPorts, others, pc, res>>

\* The tenant deletes the devbox: a deletion timestamp while the finalizer
\* holds it, erased at once otherwise.
TenantDelete ==
  /\ pc # "done"
  /\ dbx.exists /\ ~dbx.deleting
  /\ dbx' = IF dbx.fin THEN [dbx EXCEPT !.deleting = TRUE] ELSE NoDbx
  /\ l' = Outdated
  /\ obs' = Disturbed
  /\ UNCHANGED <<children, rt, rtPorts, others, pc, res, env>>

\* The node agent reports the pod's containers and moves its phase on; a pod
\* the node refuses to admit becomes Failed without any container status.
KubeletStatus ==
  /\ pc # "done"
  /\ \E n \in DOMAIN pods :
       /\ ~pods[n].deleting
       /\ \/ \E ph \in {"Pending", "Running", "Failed", "Succeeded"} :
               /\ \/ ~pods[n].cs /\ pods[n].phase = "Pending" /\ ph = "Pending"
                  \/ pods[n].cs /\ pods[n].phase = "Pending" /\ ph = "Running"
                  \/ pods[n].phase = "Running" /\ ph \in {"Failed", "Succeeded"}
               /\ pods' = [pods EXCEPT ![n].cs = TRUE, ![n].phase = ph]
          \/ /\ ~pods[n].cs /\ pods[n].phase = "Pending"
             /\ pods' = [pods EXCEPT ![n].phase = "Failed"]
  /\ obs' = Disturbed
  /\ UNCHANGED <<dbx, secret, svc, podSvc, proxyDeploy, proxySvc, ingress,
                 objs, rt, rtPorts, others, pc, l, res, env>>

\* The tenant (or the platform, draining a node) deletes the devbox's pod: it
\* gets a deletion timestamp and stays stored while it has a finalizer.
TenantDeletesPod ==
  /\ pc # "done"
  /\ MayHappen
  /\ \E n \in DOMAIN pods :
       /\ ~pods[n].deleting
       /\ pods' = [pods EXCEPT ![n].deleting = TRUE]
  /\ Spend("events")
  /\ obs' = Disturbed
  /\ UNCHANGED <<dbx, secret, svc, podSvc, proxyDeploy, proxySvc, ingress,
                 objs, rt, rtPorts, others, pc, l, res>>

\* The node agent ends a pod that is marked for deletion and has no finalizer.
KubeletRemove ==
  /\ pc # "done"
  /\ \E n \in DOMAIN pods :
       /\ pods[n].deleting /\ ~pods[n].fin
       /\ pods' = DropPod(pods, n)
  /\ obs' = Disturbed
  /\ UNCHANGED <<dbx, secret, svc, podSvc, proxyDeploy, proxySvc, ingress,
                 objs, rt, rtPorts, others, pc, l, res, env>>

\* The runtime's image changes, or the list of ports it declares.
RuntimeChange ==
  /\ pc # "done"
  /\ MayHappen
  /\ Spend("events")
  /\ \/ rt' = rt + 1 /\ rtPorts' = rtPorts
     \/ rt' = rt /\ \E ps \in RtPortLists \ {rtPorts} : rtPorts' = ps
  /\ obs' = Disturbed
  /\ UNCHANGED <<store, pc, l, res, others>>

\* Cascading delete: once the devbox is erased the platform deletes what it
\* owned.
GarbageCollect ==
  /\ pc # "done"
  /\ ~dbx.exists
  /\ children # <<NoPods, NoSecret, 0, FALSE, FALSE, FALSE, 0, NoObjs>>
  /\ pods' = [n \in {m \in DOMAIN pods : pods[m].fin} |->
                [pods[n] EXCEPT !.deleting = TRUE]]
  /\ secret' = NoSecret
  /\ svc' = 0
  /\ podSvc' = FALSE
  /\ proxyDeploy' = FALSE
  /\ proxySvc' = FALSE
  /\ ingress' = 0
  /\ objs' = NoObjs
  /\ obs' = Disturbed
  /\ UNCHANGED <<dbx, rt, rtPorts, others, pc, l, res, env>>

\* The platform assigns the node port of a service stored without one.
PlatformAssignsPort ==
  /\ pc # "done"
  /\ svc = Unassigned
  /\ \E p \in NodePorts : svc' = p
  /\ obs' = Disturbed
  /\ UNCHANGED <<dbx, pods, secret, podSvc, proxyDeploy, proxySvc, ingress,
                 objs, rt, rtPorts, others, pc, l, res, env>>

\* The tenant empties the data of the devbox's secret: it is stored, and read
\* back, with a nil data map.
TenantClearsSecret ==
  /\ pc # "done"
  /\ secret \notin {NoSecret, {}}
  /\ MayHappen
  /\ Spend("events")
  /\ secret' = {}
  /\ obs' = Disturbed
  /\ UNCHANGED <<dbx, pods, svc, podSvc, proxyDeploy, proxySvc, ingress, objs,
                 rt, rtPorts, others, pc, l, res>>

\* The controller process restarts: the pass is abandoned where it stands.
Crash ==
  /\ InPass
  /\ MayHappen
  /\ Spend("events")
  /\ pc' = "idle"
  /\ l' = L0
  /\ res' = "crash"
  /\ obs' = [obs EXCEPT !.q = "no", !.edit = FALSE,
                        !.crashed = IF l.deletion THEN pc ELSE "fwd"]
  /\ UNCHANGED <<store, rt, rtPorts, others>>

\* A store call fails (not with a conflict).  The calls before the deferred
\* status update exists, and those of removeAll, end the pass with the error;
\* the error of line 129 is dropped; inside syncPod the error is returned
\* after the deferred status update, whose own failure is only logged.
FailPcs ==
  {"addFinalizer", "secret", "network", "np_upsert", "np_status", "ws_status",
   "ws_podsvc", "ws_proxy", "ws_proxysvc", "ws_ingress", "ws_publish",
   "sp_get", "removeAll", "ra_fin", "ra_pods", "ra_svcs", "ra_secrets",
   "rm_fin"}

\* Mutant of ErrPc: the error of syncSecret is logged but not returned.
ErrPcSecretDropped(p) == IF p = "secret" THEN "network" ELSE "done"

\* Lines 87-90, 109-111, 115-124, 133-146, 151-159: the error is returned, which
\* ends the pass.
ErrPc(p) == "done"

StoreFail ==
  /\ MayHappen
  /\ Spend("events")
  /\ obs' = Disturbed
  /\ \/ /\ pc \in FailPcs
        /\ pc' = ErrPc(pc)
        /\ res' = IF pc' = "done" THEN "err" ELSE res
        /\ l' = Failed([l EXCEPT !.failed = TRUE], pc)
     \/ /\ pc = "mirror"
        /\ l' = [l EXCEPT !.dbx = [l.dbx EXCEPT !.stNet = l.dbx.net],
                          !.failed = TRUE]
        /\ Goto("secret")
     \/ /\ pc \in {"sp_act", "sp_del"}
        /\ l' = [l EXCEPT !.err = "err", !.failed = TRUE]
        /\ Goto("sp_defer")
     \/ /\ pc = "sp_defer"
        /\ pc' = "done"
        /\ res' = IF l.err = "nil" THEN "ok" ELSE l.err
        /\ l' = [l EXCEPT !.failed = TRUE,
                          !.ev = @ \o FailedEvent(pc) \o PodEvent(l.err)]
  /\ UNCHANGED <<store, rt, rtPorts, others>>

Next ==
  \/ Start
  \/ AddFinalizer
  \/ Mirror
  \/ SyncSecret
  \/ SyncNetwork
  \/ NodePortUpsert
  \/ NodePortStatus
  \/ WebSocketStatus
  \/ SyncPodSvc
  \/ SyncProxyPod
  \/ SyncProxySvc
  \/ SyncProxyIngress
  \/ WebSocketPublish
  \/ SyncPodGet
  \/ SyncPodAct
  \/ DeletePod
  \/ DeferredStatusUpdate
  \/ RemoveAllList
  \/ RemoveAllStrip
  \/ RemoveAllPods
  \/ RemoveAllServices
  \/ RemoveAllSecrets
  \/ RemoveFinalizer
  \/ Finish
  \/ TenantEdit
  \/ TenantEditsShutdown
  \/ TenantDelete
  \/ KubeletStatus
  \/ TenantDeletesPod
  \/ KubeletRemove
  \/ RuntimeChange
  \/ GarbageCollect
  \/ PlatformAssignsPort
  \/ TenantClearsSecret
  \/ Crash
  \/ StoreFail

Spec == Init /\ [][Next]_vars

\* The controller's own steps: a started pass runs on, and the request is
\* queued again after every pass.
Pass ==
  \/ Start \/ AddFinalizer \/ Mirror \/ SyncSecret \/ SyncNetwork
  \/ NodePortUpsert \/ NodePortStatus \/ WebSocketStatus \/ SyncPodSvc
  \/ SyncProxyPod \/ SyncProxySvc \/ SyncProxyIngress \/ WebSocketPublish
  \/ SyncPodGet \/ SyncPodAct \/ DeletePod \/ DeferredStatusUpdate
  \/ RemoveAllList \/ RemoveAllStrip \/ RemoveAllPods \/ RemoveAllServices
  \/ RemoveAllSecrets \/ RemoveFinalizer \/ Finish

\* Passes keep running (requests are queued again by errors and by the
\* watched objects' events), and the node agent ends the pods it is asked to
\* end: a pod that is terminating again and again is eventually removed.
FairSpec == Spec /\ WF_vars(Pass) /\ SF_vars(KubeletRemove)

\* The controller started on a store that may already hold pods carrying the
\* devbox's label set which the controller did not create: one for every
\* pod name, each either running or released and marked for deletion.
LeftoverPods ==
  {[ExpectPod(0) EXCEPT !.cs = TRUE, !.phase = "Running"],
   [ExpectPod(0) EXCEPT !.cs = TRUE, !.phase = "Running",
                        !.deleting = TRUE, !.fin = FALSE]}

LeftoverInit ==
  /\ \E st \in States, nt \in NetTypes : dbx = NewDevbox(st, nt)
  /\ \E ps \in [PodIds -> LeftoverPods] \cup {NoPods} :
       /\ pods = ps
       /\ env = [events |-> 0, created |-> Cardinality(DOMAIN ps),
                 full |-> FALSE, rand |-> 0]
  /\ secret = NoSecret
  /\ svc = 0
  /\ podSvc = FALSE
  /\ proxyDeploy = FALSE
  /\ proxySvc = FALSE
  /\ ingress = 0
  /\ objs = NoObjs
  /\ rt = 0
  /\ rtPorts = << >>
  /\ pair = NoPair
  /\ ac = NoCache
  /\ pc = "idle"
  /\ l = L0
  /\ res = "none"
  /\ obs = [q |-> "no", finWrites |-> 0, crashed |-> "no", warn |-> FALSE,
            edit |-> FALSE]

LeftoverSpec == LeftoverInit /\ [][Next]_vars

\* The tenant's namespace may have no resource quota left for a pod: every
\* create call of a pod is then refused with quota exceeded.
QuotaInit ==
  /\ \E st \in States, nt \in NetTypes : dbx = NewDevbox(st, nt)
  /\ pods = NoPods
  /\ \E f \in BOOLEAN : env = [events |-> 0, created |-> 0, full |-> f, rand |-> 0]
  /\ secret = NoSecret
  /\ svc = 0
  /\ podSvc = FALSE
  /\ proxyDeploy = FALSE
  /\ proxySvc = FALSE
  /\ ingress = 0
  /\ objs = NoObjs
  /\ rt = 0
  /\ rtPorts = << >>
  /\ pair = NoPair
  /\ ac = NoCache
  /\ pc = "idle"
  /\ l = L0
  /\ res = "none"
  /\ obs = [q |-> "no", finWrites |-> 0, crashed |-> "no", warn |-> FALSE,
            edit |-> FALSE]

QuotaSpec == QuotaInit /\ [][Next]_vars

\* The secret of the devbox may have been written by an older controller,
\* which stored the key pair but not the jwt secret or the authorized key.
OlderSecrets ==
  {s \in SUBSET GenerateSecret(1, 1) :
     {"PUBLIC_KEY", "PRIVATE_KEY"} \subseteq Keys(s)}

UpgradeInit ==
  /\ \E st \in States, nt \in NetTypes : dbx = NewDevbox(st, nt)
  /\ pods = NoPods
  /\ \E s \in OlderSecrets \cup {NoSecret} :
       /\ secret = s
       /\ env = [events |-> 0, created |-> 0, full |-> FALSE,
                 rand |-> IF s = NoSecret THEN 0 ELSE 1]
  /\ svc = 0
  /\ podSvc = FALSE
  /\ proxyDeploy = FALSE
  /\ proxySvc = FALSE
  /\ ingress = 0
  /\ objs = NoObjs
  /\ rt = 0
  /\ rtPorts = << >>
  /\ pair = NoPair
  /\ ac = NoCache
  /\ pc = "idle"
  /\ l = L0
  /\ res = "none"
  /\ obs = [q |-> "no", finWrites |-> 0, crashed |-> "no", warn |-> FALSE,
            edit |-> FALSE]

UpgradeSpec == UpgradeInit /\ [][Next]_vars

\* ================================================================= claims
NumPods == Cardinality(DOMAIN pods)

Pending(hist) == {i \in DOMAIN hist : hist[i].status = "Pending"}

LivePods == {n \in DOMAIN pods : ~pods[n].deleting}

\* A pass nothing outside the controller has acted on since it began.
Undisturbed == obs.q \in {"run", "rerun"}

\* C1: at most one pod carrying the devbox's labels exists in every reachable
\* state, and a pod is added to the store only by the pod step of a pass
\* whose pod list was empty.
C1_AtMostOnePod ==
  /\ [](NumPods <= 1)
  /\ [][DOMAIN pods' \ DOMAIN pods # {} =>
          pc = "sp_act" /\ l.podList = NoPods]_vars

\* C1 witness: a second pod has been created (after the first one was
\* deleted) and is the only pod.
C1_Witness == env.created = 2 /\ NumPods = 1 /\ pc = "sp_defer"

\* C2: a single undisturbed pass on a new Running/NodePort devbox ends
\* without error having created the secret, the NodePort service and the
\* pod, with CommitHistory[0].status = Pending stored.
C2_ScenarioA ==
  (pc = "done" /\ l.new /\ Undisturbed
     /\ dbx.exists /\ dbx.state = "Running" /\ dbx.net = "NodePort")
  => /\ res = "ok"
     /\ secret # NoSecret
     /\ svc # 0
     /\ NumPods = 1
     /\ Len(dbx.hist) >= 1
     /\ dbx.hist[1].status = "Pending"

\* C3: if the devbox's state stays Stopped and passes keep running, then
\* from some point on no pod and no proxy deployment of the devbox remain.
C3_StoppedConverges ==
  <>[](dbx.exists /\ ~dbx.deleting /\ dbx.state = "Stopped")
    => <>[](NumPods = 0 /\ ~proxyDeploy)

\* C4: in WebSocket mode a pass that observes state = Stopped and ends without
\* error leaves no proxy ingress behind.
C4_NoIngressWhileStopped ==
  (pc = "done" /\ res = "ok" /\ Undisturbed /\ ~l.deletion
     /\ dbx.exists /\ dbx.net = "WebSocket" /\ dbx.state = "Stopped")
  => ingress = 0

\* What a deletion pass that ran to its end leaves in the store: the devbox
\* is erased, the secret and the service carrying the devbox's labels are
\* gone, and every pod still stored is marked for deletion with no finalizer.
DeletionFinal ==
  /\ ~dbx.exists
  /\ secret = NoSecret
  /\ svc = 0
  /\ \A n \in DOMAIN pods : pods[n].deleting /\ ~pods[n].fin

NoChildren == children = <<NoPods, NoSecret, 0, FALSE, FALSE, FALSE, 0, NoObjs>>

DeletionPassOk == pc = "done" /\ l.deletion /\ res = "ok"

\* C5 as stated: after a deletion pass that returns without error no child
\* object remains, the devbox no longer carries the finalizer, and the
\* finalizer was removed by exactly one write.
C5_Original ==
  DeletionPassOk => NoChildren /\ ~dbx.fin /\ obs.finWrites = 1

\* C5 amended: after a deletion pass that returns without error the devbox is
\* erased, its secret and its labelled service are gone, and every pod left
\* is marked for deletion and carries no finalizer (the other children are
\* left to the cascading delete); the finalizer-removing write happened
\* exactly once, and never happens more than once.
C5_DeletionTerminal ==
  /\ DeletionPassOk => DeletionFinal /\ obs.finWrites = 1
  /\ obs.finWrites <= 1

\* C5 witness: a deletion pass has ended without error while the proxy
\* ingress and a terminating pod are still stored.
C5_Witness == DeletionPassOk /\ ingress # 0 /\ NumPods = 1

DeletionPcs ==
  {"removeAll", "ra_fin", "ra_pods", "ra_svcs", "ra_secrets", "rm_fin", "done"}

\* C6: the devbox loses its finalizer only in the step after removeAll has
\* returned without error (pods stripped and deleted, services and secrets
\* bulk-deleted); a deletion pass that ends with an error leaves the finalizer
\* on the devbox; a deletion pass runs no forward step.
C6_FinalizerAfterCleanup ==
  /\ [][dbx.fin /\ ~dbx'.fin =>
          /\ pc = "rm_fin" /\ l.deletion
          /\ secret = NoSecret /\ svc = 0
          /\ \A n \in DOMAIN pods : pods[n].deleting /\ ~pods[n].fin]_vars
  /\ []((pc = "done" /\ l.deletion /\ res # "ok")
          => dbx.exists /\ dbx.fin /\ dbx.deleting)
  /\ [](l.deletion => pc \in DeletionPcs)

\* C6 witness: a deletion pass failed at the bulk delete of secrets, after
\* the NodePort service was deleted, and the devbox keeps its finalizer.
C6_Witness ==
  /\ pc = "done" /\ l.deletion /\ res = "err"
  /\ dbx.fin /\ dbx.nodePort # 0 /\ svc = 0 /\ secret # NoSecret

\* A deletion pass was abandoned at some step, after the writes before it.
CrashedInDeletion == obs.crashed \notin {"no", "fwd"}

\* C7: a deletion pass run after an abandoned one ends without error unless a
\* store call of its own fails or another writer's pod update makes its pod
\* update conflict, and when it ends without error the store is in the final
\* state of an uninterrupted deletion pass.
C7_CleanupIdempotent ==
  (pc = "done" /\ l.deletion /\ CrashedInDeletion)
  => /\ res = "ok" \/ res = "conflict" \/ (res = "err" /\ l.failed)
     /\ res = "conflict" => \E n \in DOMAIN l.podList : PodUpdateErr(n) = "conflict"
     /\ res = "ok" => DeletionFinal

\* C7 witness: the first deletion pass was abandoned after its bulk delete of
\* services, and the next one ended without error.
C7_Witness ==
  /\ pc = "done" /\ l.deletion /\ res = "ok"
  /\ obs.crashed = "ra_secrets" /\ ~dbx.exists

\* C8: while a pass runs that began after a pass that ended without error,
\* with nothing outside the controller acting since that pass began, no step
\* changes a stored object.
C8_RerunWritesNothing ==
  [][obs.q = "rerun" /\ obs'.q = "rerun" => store' = store]_vars

\* C9: the stored commit history only grows at its end, an entry keeps its
\* place, pod name and time, and times are non-decreasing along the list.
C9_AppendOnly ==
  /\ [][dbx.exists /\ dbx'.exists =>
          /\ Len(dbx'.hist) >= Len(dbx.hist)
          /\ \A i \in DOMAIN dbx.hist :
                /\ dbx'.hist[i].pod = dbx.hist[i].pod
                /\ dbx'.hist[i].time = dbx.hist[i].time]_vars
  /\ [](\A i, j \in DOMAIN dbx.hist :
          i < j => dbx.hist[i].time <= dbx.hist[j].time)

\* C9 witness: a second entry has been stored after the first.
C9_Witness == Len(dbx.hist) = 2 /\ dbx.hist[1].status # "Pending"

\* C10: at the end of every pass the stored commit history has at most one
\* Pending entry, and every live pod has exactly one Pending entry named
\* after it.
C10_OnePending ==
  (pc = "done" /\ dbx.exists)
  => /\ Cardinality(Pending(dbx.hist)) <= 1
     /\ \A n \in LivePods :
          Cardinality({i \in Pending(dbx.hist) : dbx.hist[i].pod = n}) = 1

\* The entry of pod n has left the open state.
EntryClosed(n) ==
  \E i \in DOMAIN dbx.hist :
    dbx.hist[i].pod = n /\ dbx.hist[i].status \in {"Success", "Failed"}

\* Pod n has an entry and has been deleted: marked for deletion, or gone.
PodDeleted(n) ==
  n \in HistPods(dbx.hist) /\ (n \notin DOMAIN pods \/ pods[n].deleting)

\* C11: once the pod named by a stored entry has been deleted and passes keep
\* running, the entry's status becomes Success or Failed (unless the devbox
\* itself is deleted), and a status that is not Pending never becomes
\* Pending again.
C11_EntriesClose ==
  /\ \A n \in PodIds :
       (dbx.exists /\ PodDeleted(n))
         ~> (~dbx.exists \/ dbx.deleting \/ EntryClosed(n))
  /\ [][\A i \in DOMAIN dbx.hist :
          (dbx'.exists /\ dbx.hist[i].status # "Pending")
            => (i \in DOMAIN dbx'.hist /\ dbx'.hist[i].status # "Pending")]_vars


\* C12: when the devbox's state is Running, no pod is listed and the create
\* call fails with quota exceeded, the pod step returns no error, the stored
\* spec.state becomes Stopped, no commit entry is appended, no pod is stored
\* and a warning event is recorded; a create call that fails otherwise makes
\* the pod step return the error and leaves the stored devbox as it was.
QuotaStep == ~l.quota /\ l'.quota

CreateFailStep == pc = "sp_act" /\ DOMAIN l.podList = {} /\ ~l.failed /\ l'.failed /\ ~l'.quota

C12_QuotaStops ==
  /\ [][QuotaStep =>
          /\ pc = "sp_act" /\ l.dbx.state = "Running" /\ DOMAIN l.podList = {}
          /\ l'.err = "nil"
          /\ dbx'.exists /\ dbx'.state = "Stopped"
          /\ l'.dbx.hist = l.dbx.hist
          /\ pods' = pods
          /\ obs'.warn]_vars
  /\ [][CreateFailStep =>
          /\ l'.err = "err"
          /\ dbx' = dbx
          /\ pods' = pods]_vars
  /\ [][(pc = "sp_defer" /\ pc' = "done") =>
          res' = (IF l.err = "nil" THEN "ok" ELSE l.err)]_vars

\* C13: a pass that observes state Stopped and exactly one pod not marked for
\* deletion deletes that pod whatever its phase and container statuses (unless
\* a store call of the pass is refused or the pass is abandoned), the pod's
\* finalizer is removed before the delete call, and a pod is only ever created
\* by a pass that observed state Running.
SeesStoppedWith(n) ==
  /\ pc = "sp_act"
  /\ l.dbx.state = "Stopped"
  /\ DOMAIN l.podList = {n}
  /\ ~l.podList[n].deleting

C13_StoppedDeletes ==
  /\ [][\A n \in PodIds :
          (SeesStoppedWith(n) /\ pc' # pc) =>
            \/ /\ pc' = "sp_del" /\ l'.target = n
               /\ ~pods'[n].fin /\ pods'[n].deleting = pods[n].deleting
            \/ PodUpdateErr(n) # "nil" /\ l'.err = PodUpdateErr(n) /\ pods' = pods
            \/ l'.failed /\ pods' = pods
            \/ pc' = "idle" /\ pods' = pods]_vars
  /\ [][(pc = "sp_del" /\ pc' # pc) =>
          \/ /\ l.target \in DOMAIN pods'
             /\ pods'[l.target].deleting /\ ~pods'[l.target].fin
             /\ l'.err \in {"nil", "panic"}
          \/ l.target \notin DOMAIN pods /\ l'.err = "err" /\ pods' = pods
          \/ l'.failed /\ pods' = pods
          \/ pc' = "idle" /\ pods' = pods]_vars
  /\ [][\A n \in DOMAIN pods :
          (pc = "sp_del" /\ n \in DOMAIN pods'
             /\ ~pods[n].deleting /\ pods'[n].deleting) => ~pods[n].fin]_vars
  /\ [][(DOMAIN pods' \ DOMAIN pods # {}) =>
          (pc = "sp_act" /\ l.dbx.state = "Running")]_vars

\* A pod with no container status has been deleted by a pass that saw Stopped.
C13_Witness ==
  /\ pc = "sp_defer"
  /\ l.dbx.state = "Stopped"
  /\ l.target \in DOMAIN pods
  /\ ~l.podList[l.target].deleting /\ ~l.podList[l.target].cs
  /\ pods[l.target].deleting /\ ~pods[l.target].fin

\* C14: a pass that observes state Running and a single pod that is not
\* marked for deletion and does not match the expected pod deletes that pod,
\* whatever its phase (unless a store call of the pass is refused or the pass
\* is abandoned).
SeesMismatch(n) ==
  /\ pc = "sp_act"
  /\ l.dbx.state = "Running"
  /\ DOMAIN l.podList = {n}
  /\ ~l.podList[n].deleting
  /\ ~PodMatchExpectations(rt, l.podList[n])

C14_MismatchDeleted ==
  [][\A n \in PodIds :
       (SeesMismatch(n) /\ pc' # pc) =>
         \/ pc' = "sp_del" /\ l'.target = n /\ ~pods'[n].fin
         \/ PodUpdateErr(n) # "nil" /\ l'.err = PodUpdateErr(n) /\ pods' = pods
         \/ l'.failed /\ pods' = pods
         \/ pc' = "idle" /\ pods' = pods]_vars

\* C15: in NodePort mode the network step succeeds only if the re-read service
\* has a non-zero node port, and then the stored status.network is NodePort
\* with that port; if no port is assigned the step returns an error (or the
\* pass is abandoned), the stored nodePort is not changed and the pass ends
\* without running the pod step.
C15_NodePortPublished ==
  /\ [][(pc = "np_status" /\ pc' = "sp_get") =>
          /\ SvcPort(svc) # 0
          /\ dbx'.stNet = "NodePort"
          /\ dbx'.nodePort = SvcPort(svc)]_vars
  /\ [][(pc = "np_status" /\ SvcPort(svc) = 0 /\ pc' # pc) =>
          /\ \/ pc' = "done" /\ res' = "err"
             \/ pc' = "idle" /\ res' = "crash"
          /\ dbx' = dbx
          /\ pods' = pods]_vars
  /\ [][(pc' = "sp_get" /\ pc # "sp_get" /\ l.dbx.net = "NodePort") =>
          pc \in {"np_status", "sp_defer"}]_vars

\* The service was stored without a node port and the network step returned
\* the error: nothing is published and no pod is created.
C15_Witness ==
  /\ pc = "done" /\ res = "err"
  /\ ~l.failed /\ ~l.deletion
  /\ svc = Unassigned
  /\ dbx.nodePort = 0
  /\ pods = NoPods

\* C16: in WebSocket mode, at the end of a pass that returned no error, the
\* host published in status.network.webSocket is the host of the rule of the
\* stored proxy ingress.
C16_PublishedHostRouted ==
  (/\ pc = "done" /\ res = "ok" /\ ~l.deletion
   /\ dbx.exists /\ dbx.net = "WebSocket" /\ l.dbx.net = "WebSocket"
   /\ ingress # 0)
  => dbx.ws = ingress

\* C17: no pass panics: whatever the stored objects are, Reconcile returns a
\* result or an error.
C17_NoPanic == res # "panic" /\ l.err # "panic"

\* C18: a pass for a devbox that is no longer stored returns success at once
\* and changes no stored object.
C18_AbsentIsSuccess ==
  [][(pc = "idle" /\ ~dbx.exists /\ pc' # pc) =>
       (pc' = "done" /\ res' = "ok" /\ store' = store)]_vars

\* A pass has run for a devbox that an earlier deletion pass had erased.
C18_Witness ==
  /\ pc = "done" /\ res = "ok"
  /\ ~dbx.exists
  /\ l = L0
  /\ obs.finWrites = 1

\* C19: between passes, for every pod the controller has created for the
\* stored devbox, the stored commit history has exactly one entry with that
\* pod's name.
EntriesOf(n) == {i \in DOMAIN dbx.hist : dbx.hist[i].pod = n}

C19_EntryPerPod ==
  (pc \in {"idle", "done"} /\ dbx.exists)
  => \A n \in 1..Budget("created") : Cardinality(EntriesOf(n)) = 1

\* C20: a forward pass runs the credential step, then the network step, then
\* the pod step; when the credential step or the network step fails the pass
\* ends there and writes nothing more, so a pod is created only in a pass
\* whose credential step left a secret with its keys in the store.
SecretNetPcs ==
  {"secret", "network", "np_upsert", "np_status", "ws_status", "ws_podsvc",
   "ws_proxy", "ws_proxysvc", "ws_ingress", "ws_publish"}

C20_StepsInOrder ==
  /\ [][pc' # pc =>
          /\ pc' = "secret" => pc = "mirror"
          /\ pc' = "network" => (pc = "secret" /\ secret' \notin {NoSecret, {}})
          /\ pc' \in {"np_upsert", "ws_status"} => pc = "network"
          /\ pc' = "sp_get" => pc \in {"np_status", "ws_publish", "sp_defer"}
          /\ pc' = "sp_act" => pc = "sp_get"]_vars
  /\ [][(pc \in SecretNetPcs /\ ~l.failed /\ l'.failed) =>
          (pc' = "done" /\ res' = "err" /\ store' = store)]_vars
  /\ [][(pc \in SecretNetPcs /\ pc' = "done") =>
          (res' \in {"err", "conflict", "panic"} /\ pods' = pods)]_vars
  /\ [][pc = "done" => store' = store]_vars
  /\ [][(DOMAIN pods' \ DOMAIN pods # {}) => pc = "sp_act"]_vars

\* The credential step failed in a pass that had mirrored the network type:
\* the pass ended with the error, no secret, no service and no pod.
C20_Witness ==
  /\ pc = "done" /\ res = "err"
  /\ l.failed /\ ~l.deletion
  /\ dbx.exists /\ l.dbx.stNet = l.dbx.net
  /\ secret = NoSecret
  /\ svc = 0 /\ ~podSvc
  /\ pods = NoPods

\* C21 as claimed: when a pass observes state Running and a single pod that is
\* not marked for deletion, matches the expected pod and is in phase Pending
\* or Running, the pod step stores no pod, deletes none and removes no
\* finalizer, and the only thing it changes in the stored devbox is the
\* status fields of that pod's commit entry.
SeesSteady(n) ==
  /\ pc = "sp_act"
  /\ l.dbx.state = "Running"
  /\ DOMAIN l.podList = {n}
  /\ ~l.podList[n].deleting
  /\ l.podList[n].gen = rt
  /\ l.podList[n].phase \in {"Pending", "Running"}

KeptAt(n) ==
  /\ pc = "sp_defer"
  /\ l.dbx.state = "Running"
  /\ DOMAIN l.podList = {n}
  /\ ~l.podList[n].deleting
  /\ l.target = 0
  /\ l.err = "nil"

OnlyEntryStatus(n) ==
  /\ DOMAIN dbx'.hist = DOMAIN dbx.hist
  /\ \A i \in DOMAIN dbx.hist :
       IF dbx.hist[i].pod = n
       THEN dbx'.hist[i].pod = n /\ dbx'.hist[i].time = dbx.hist[i].time
       ELSE dbx'.hist[i] = dbx.hist[i]

PodStepKeeps ==
  \A n \in PodIds :
    (SeesSteady(n) /\ pc' # pc) =>
      /\ pods' = pods /\ dbx' = dbx
      /\ pc' \in {"sp_defer", "idle"}
      /\ l'.target = 0

C21_Original ==
  /\ [][PodStepKeeps]_vars
  /\ [][\A n \in PodIds :
          (KeptAt(n) /\ pc' # pc) =>
            /\ pods' = pods
            /\ dbx' = [dbx EXCEPT !.hist = dbx'.hist]
            /\ OnlyEntryStatus(n)]_vars

\* C21 amended: as above, but the pod step also stores the pod's container
\* state in status.state.
C21_SteadyState ==
  /\ [][PodStepKeeps]_vars
  /\ [][\A n \in PodIds :
          (KeptAt(n) /\ pc' # pc) =>
            /\ pods' = pods
            /\ dbx' = [dbx EXCEPT !.hist = dbx'.hist, !.cst = dbx'.cst]
            /\ dbx'.cst \in {dbx.cst, l.podList[n].phase}
            /\ OnlyEntryStatus(n)]_vars

\* A pass has kept the matching pod, which is Running: the entry's predicted
\* status and status.state follow the pod, the entry stays open.
C21_Witness ==
  /\ pc = "done" /\ res = "ok"
  /\ dbx.exists /\ dbx.state = "Running"
  /\ DOMAIN pods = {1}
  /\ ~pods[1].deleting /\ pods[1].fin /\ pods[1].phase = "Running"
  /\ dbx.cst = "Running"
  /\ Len(dbx.hist) = 1
  /\ dbx.hist[1].pred = "Success" /\ dbx.hist[1].status = "Pending"

\* C22: when a pass observes state Running and a single pod that is not
\* marked for deletion, matches the expected pod and is in phase Failed or
\* Succeeded, the pod step removes the pod's finalizer and then deletes the
\* pod (unless a store call of the pass is refused or the pass is abandoned).
SeesFinished(n) ==
  /\ pc = "sp_act"
  /\ l.dbx.state = "Running"
  /\ DOMAIN l.podList = {n}
  /\ ~l.podList[n].deleting
  /\ l.podList[n].gen = rt
  /\ l.podList[n].phase \in {"Failed", "Succeeded"}

C22_FinishedReplaced ==
  /\ [][\A n \in PodIds :
          (SeesFinished(n) /\ pc' # pc) =>
            \/ /\ pc' = "sp_del" /\ l'.target = n
               /\ ~pods'[n].fin /\ ~pods'[n].deleting
            \/ PodUpdateErr(n) # "nil" /\ l'.err = PodUpdateErr(n) /\ pods' = pods
            \/ l'.failed /\ pods' = pods
            \/ pc' = "idle" /\ pods' = pods]_vars
  /\ [][(pc = "sp_del" /\ l.dbx.state = "Running" /\ pc' # pc) =>
          \/ /\ l.target \in DOMAIN pods'
             /\ pods'[l.target].deleting /\ ~pods'[l.target].fin
          \/ l.target \notin DOMAIN pods /\ l'.err = "err" /\ pods' = pods
          \/ l'.failed /\ pods' = pods
          \/ pc' = "idle" /\ pods' = pods]_vars

\* C23: when a pass observes a single pod that is marked for deletion, in
\* either state of the devbox, the pod step leaves the pod without the
\* controller's finalizer, records the pod as the source of the last
\* termination state, sets the status of the pod's commit entry to its
\* predicted status, returns no error, deletes nothing and creates no pod
\* (unless a store call of the pass is refused or the pass is abandoned).
SeesDeleted(n) ==
  /\ pc = "sp_act"
  /\ DOMAIN l.podList = {n}
  /\ l.podList[n].deleting

EntryFinal(hist, n) ==
  \A i \in DOMAIN hist : hist[i].pod = n => hist[i].status = hist[i].pred

C23_DeletedPodHandled ==
  [][\A n \in PodIds :
       (SeesDeleted(n) /\ pc' # pc) =>
         \/ /\ pc' = "sp_defer"
            /\ DOMAIN pods' = DOMAIN pods
            /\ n \in DOMAIN pods' /\ ~pods'[n].fin
            /\ l'.err = "nil"
            /\ l'.dbx.lastTerm = n
            /\ EntryFinal(l'.dbx.hist, n)
         \/ PodUpdateErr(n) # "nil" /\ l'.err = PodUpdateErr(n) /\ pods' = pods
         \/ l'.failed /\ pods' = pods
         \/ pc' = "idle" /\ pods' = pods]_vars

\* C24: when a pass lists more than one pod for the devbox, the pod step
\* returns an error and changes no stored object; while more than one pod is
\* stored no step of a forward pass changes a pod or the commit history.
C24_ManyPodsReported ==
  /\ [][(pc = "sp_get" /\ dbx.exists /\ NumPods > 1 /\ pc' # pc) =>
          /\ \/ pc' = "done" /\ res' = "err"
             \/ pc' = "idle" /\ res' = "crash"
          /\ store' = store]_vars
  /\ [][(NumPods > 1 /\ InPass /\ ~l.deletion /\ pc' # pc) =>
          (pods' = pods /\ dbx'.hist = dbx.hist)]_vars

\* A pass has listed two pods and returned the error.
C24_Witness ==
  /\ pc = "done" /\ res = "err"
  /\ ~l.failed /\ ~l.deletion
  /\ Cardinality(DOMAIN l.podList) = 2
  /\ pods = l.podList

\* C25: a version conflict on a status write does not by itself fail a
\* forward pass: no forward pass in which no store call failed otherwise
\* ends with a conflict error.
C25_ConflictNotFatal ==
  (pc = "done" /\ ~l.deletion /\ ~l.failed) => res # "conflict"

\* C26: when the deferred status update, the network-type mirror or the
\* state write of the quota path fails, the pass returns an error (and so
\* does not report success).
WriteFails(p) == pc = p /\ ~l.failed /\ l'.failed

C26_WriteFailureReturned ==
  /\ [][WriteFails("sp_defer") => (pc' = "done" /\ res' # "ok")]_vars
  /\ [][WriteFails("mirror") => (pc' = "done" /\ res' # "ok")]_vars
  /\ [][(QuotaStep /\ ~StatusUpdateOk) => l'.err # "nil"]_vars

\* C27 as claimed: once a tenant's edit of spec.state has landed during a
\* pass, no step of that pass changes the stored spec.state, and no step of
\* a pass changes the stored network type.
SpecKept == dbx'.exists => (dbx'.state = dbx.state /\ dbx'.net = dbx.net)

C27_Original ==
  /\ [][(obs.edit /\ InPass /\ pc' # pc /\ dbx'.exists) =>
          dbx'.state = dbx.state]_vars
  /\ [][(InPass /\ pc' # pc /\ dbx'.exists) => dbx'.net = dbx.net]_vars

\* C27 amended: a step of a pass changes the stored spec only in the quota
\* path, only from a copy whose resourceVersion is the stored one (so never
\* over an edit that landed after the pass's last read), and only by setting
\* state to Stopped; every other write of the pass leaves the spec as stored.
C27_SpecWrittenFromLatest ==
  [][(InPass /\ pc' # pc /\ ~SpecKept) =>
       /\ QuotaStep
       /\ l.fresh
       /\ l.dbx.state = dbx.state /\ l.dbx.net = dbx.net
       /\ dbx' = [dbx EXCEPT !.state = "Stopped"]]_vars

\* The tenant changed the network type (and not the state) after the pass's
\* last read; the quota path's write of state = Stopped was refused and the
\* stored spec is the tenant's.
C27_Witness ==
  /\ pc = "sp_defer"
  /\ l.quota /\ ~obs.edit
  /\ dbx.exists /\ dbx.state = "Running"
  /\ dbx.net # l.dbx.net

\* C28: after a forward pass was abandoned, a later pass on a Running devbox
\* that keeps the pod it finds and ends without error, with nothing outside
\* the controller acting during it, is at the fixpoint of an uninterrupted
\* run: the secret, the network objects of the mode, and exactly one live pod
\* with an open commit entry named after it.
NetworkObjects ==
  IF dbx.net = "NodePort" THEN svc \in NodePorts
  ELSE podSvc /\ proxyDeploy /\ proxySvc /\ ingress # 0

OpenEntryFor(n) ==
  \E i \in DOMAIN dbx.hist :
    dbx.hist[i].pod = n /\ dbx.hist[i].status = "Pending"

C28_AbandonedPassConverges ==
  (/\ obs.crashed = "fwd"
   /\ pc = "done" /\ res = "ok" /\ Undisturbed /\ ~l.deletion
   /\ dbx.exists /\ ~dbx.deleting /\ dbx.state = "Running"
   /\ l.podList # NoPods /\ l.target = 0 /\ pods = l.podList)
  => /\ secret \notin {NoSecret, {}}
     /\ NetworkObjects
     /\ Cardinality(LivePods) = 1
     /\ \A n \in LivePods : OpenEntryFor(n)

\* A step of the controller that creates, updates or deletes a child object.
ChildWritten == InPass /\ pc' # pc /\ children' # children

\* The finalizer step with the finalizer already stored writes nothing.
AddIsIdempotent ==
  (pc = "addFinalizer" /\ pc' # pc /\ dbx.exists /\ dbx.fin) => dbx' = dbx

\* The finalizer step never ends the pass with a version conflict.
AddRetriesConflict == (pc = "addFinalizer" /\ pc' = "done") => res' # "conflict"

C30_NetworkTypeMirrored ==
  (/\ pc = "done" /\ Undisturbed /\ ~l.deletion
   /\ dbx.exists /\ ~dbx.deleting)
  => dbx.stNet = dbx.net

\* The credential step of a pass that finds the secret stored.
SecretStep == pc = "secret" /\ pc' # pc /\ secret # NoSecret

\* C31: the credential step of a pass keeps every field of a stored secret
\* with its value and adds nothing but an absent jwt secret and an absent
\* authorized key; with both present it leaves the secret as it is; and no
\* step of a forward pass changes or removes a field of a stored secret.
C31_SecretOnlyBackfilled ==
  [][/\ SecretStep =>
          /\ secret \subseteq secret'
          /\ Keys(secret') \ Keys(secret)
               = {"JWT_SECRET", "AUTHORIZED_KEYS"} \ Keys(secret)
               \/ secret' = secret
          /\ {"JWT_SECRET", "AUTHORIZED_KEYS"} \subseteq Keys(secret)
               => secret' = secret
     /\ (InPass /\ ~l.deletion /\ pc' # pc /\ secret # NoSecret)
          => secret \subseteq secret']_vars

\* The credential step has added the jwt secret and the authorized key to a
\* secret that held only the key pair, whose values are the ones it had.
C31_Witness ==
  /\ pc = "network"
  /\ Keys(secret) = SecretKeys
  /\ Value(secret, "PUBLIC_KEY") = 1 /\ Value(secret, "PRIVATE_KEY") = 1
  /\ Value(secret, "AUTHORIZED_KEYS") = 1
  /\ Value(secret, "JWT_SECRET") = 2

\* The NodePort network step of a pass returns without error.
NodePortStepOk == pc = "np_status" /\ pc' = "sp_get"

\* C32: when the NodePort network step has succeeded, <name>-svc has one port
\* for every port the step read from the runtime (port 22 when the runtime
\* declares none), also when the service was stored before with another list.
C32_ServicePortsFollowRuntime ==
  [][NodePortStepOk => objs'.svc = l.ports]_vars

\* The WebSocket network step of a pass returns without error.
WebSocketStepOk == pc = "ws_publish" /\ pc' = "sp_get"

\* C33: when the network step of a pass has succeeded, the port list of the
\* service it upserted and the pod template of a stored proxy deployment are
\* the ones the pass computed.
C33_OwnedFieldsOverwritten ==
  [][/\ NodePortStepOk => objs'.svc = l.ports
     /\ WebSocketStepOk =>
          /\ objs'.podSvc = l.ports
          /\ proxyDeploy' => objs'.tpl = ProxyTemplate(l.dbx)]_vars

\* C33, the proxy deployment alone: after a successful WebSocket network step
\* the template of the stored deployment is the one computed in the pass.
C33_TemplateOverwritten ==
  [][(WebSocketStepOk /\ proxyDeploy')
       => objs'.tpl = ProxyTemplate(l.dbx)]_vars

\* C34: no step of a forward pass changes the node port of a stored
\* <name>-svc or removes the service, and a step of a forward pass that
\* writes status.network.nodePort writes the node port of the service.
C34_NodePortStable ==
  [][(InPass /\ ~l.deletion /\ pc' # pc) =>
       /\ SvcPort(svc) # 0 => svc' = svc
       /\ dbx'.nodePort # dbx.nodePort => dbx'.nodePort = SvcPort(svc)
       /\ (dbx.nodePort = SvcPort(svc) /\ SvcPort(svc) # 0 /\ dbx'.exists)
            => dbx'.nodePort = dbx.nodePort]_vars

\* An upsert has run on a service that was stored before (its port list is
\* not the one a create would have written), the service has its node port,
\* and the published node port is that one.
C34_Witness ==
  /\ pc = "np_status" /\ ~l.deletion
  /\ SvcPort(svc) # 0 /\ dbx.exists /\ dbx.nodePort = SvcPort(svc)
  /\ rtPorts # << >> /\ objs.svc = <<8080>> /\ l.ports # <<8080>>

Count(seq, e) == Cardinality({i \in DOMAIN seq : seq[i] = e})

NetworkPcs ==
  {"network", "np_upsert", "np_status", "ws_status", "ws_podsvc", "ws_proxy",
   "ws_proxysvc", "ws_ingress", "ws_publish"}

\* The credential step records its one event.
SecretEventOnce ==
  /\ (pc = "secret" /\ pc' = "network")
       => l'.ev = Append(l.ev, "Sync secret success")
  /\ (pc = "secret" /\ pc' = "done" /\ res' # "panic")
       => l'.ev = Append(l.ev, "Sync secret failed")

\* The network step records its one event.
NetworkEventOnce ==
  /\ (NodePortStepOk \/ WebSocketStepOk)
       => l'.ev = Append(l.ev, "Sync network success")
  /\ (pc \in NetworkPcs /\ pc' = "done")
       => l'.ev = Append(l.ev, "Sync network failed")

\* The pod step has ended the pass (not by a panic).
PodStepEnds == pc \in {"sp_get", "sp_defer"} /\ pc' = "done" /\ res' # "panic"

\* The pod step has recorded one event, of the kind of its outcome.
PodEventOnce ==
  PodStepEnds =>
    /\ Count(l'.ev, "Sync pod success") = (IF res' = "ok" THEN 1 ELSE 0)
    /\ Count(l'.ev, "Sync pod failed") = (IF res' = "ok" THEN 0 ELSE 1)

\* C35: each of the three forward steps records exactly one event on the
\* devbox, the success event if the step succeeded and the failure event if
\* it failed, and never both for the same step.
C35_OneEventPerStep ==
  [][SecretEventOnce /\ NetworkEventOnce /\ PodEventOnce]_vars

\* C35, the credential step alone.
C35_SecretEvent == [][SecretEventOnce]_vars

\* C35, the pod step alone.
C35_PodEvent == [][PodEventOnce]_vars

\* C35, the last part: a pass ends with at most one kind of pod event.
C35_PodNotBoth ==
  pc = "done" =>
    ~(Count(l.ev, "Sync pod success") > 0 /\ Count(l.ev, "Sync pod failed") > 0)

\* ---------------------------------------------------- AuthCache, the steps
\* The devbox of Next, at rest, while another specification runs.
SingleIdle ==
  /\ dbx = NewDevbox("Stopped", "NodePort")
  /\ pods = NoPods
  /\ secret = NoSecret
  /\ svc = 0
  /\ podSvc = FALSE
  /\ proxyDeploy = FALSE
  /\ proxySvc = FALSE
  /\ ingress = 0
  /\ objs = NoObjs
  /\ rt = 0
  /\ rtPorts = << >>
  /\ pc = "idle"
  /\ l = L0
  /\ res = "none"
  /\ env = [events |-> 0, created |-> 0, full |-> FALSE, rand |-> 0]
  /\ obs = [q |-> "no", finWrites |-> 0, crashed |-> "no", warn |-> FALSE,
            edit |-> FALSE]

\* The arguments of Set and Get: <<"a","b">> is the namespace "a-b".
Namespaces == {<<"b">>, <<"a", "b">>}
Kubeconfigs == {<<"k">>, <<"k", "a">>}

CacheInit ==
  /\ SingleIdle
  /\ pair = NoPair
  /\ \E capacity \in 1..MaxCapacity : ac = NewAuthCache(1, capacity)

\* Lines 70-78: nothing for an empty list; else the back of the list leaves
\* the list and its key is deleted from the map (a no-op for a key the map
\* does not hold).
evict(c) ==
  IF Len(c.order) = 0 THEN c
  ELSE LET oldestKey == c.order[Len(c.order)]
       IN [c EXCEPT !.order = SubSeq(c.order, 1, Len(c.order) - 1),
                    !.cache = [k \in DOMAIN c.cache \ {oldestKey} |-> c.cache[k]]]

\* Lines 43-49: evict at capacity, then the map entry and a new front.
Stored(c, key) ==
  LET e == IF Cardinality(DOMAIN c.cache) >= c.capacity THEN evict(c) ELSE c
  IN [e EXCEPT !.cache = [k \in DOMAIN e.cache \cup {key} |->
                            IF k = key THEN c.now ELSE e.cache[k]],
               !.order = <<key>> \o e.order]

\* Lines 38-50.
Set ==
  /\ ac.sets < MaxSets
  /\ \E ns \in Namespaces, kc \in Kubeconfigs :
       ac' = [Stored(ac, Sprintf(kc, ns)) EXCEPT !.sets = ac.sets + 1]
  /\ UNCHANGED <<single, pair>>

\* Lines 62-65: the entry is older than the ttl.
Expired(c, key) == c.now - c.cache[key] > c.ttl

\* Lines 52-68.
Get ==
  /\ \E ns \in Namespaces, kc \in Kubeconfigs :
       LET key == Sprintf(kc, ns)
       IN ac' = [ac EXCEPT !.got =
                   <<key, key \in DOMAIN ac.cache /\ ~Expired(ac, key)>>]
  /\ ac' # ac
  /\ UNCHANGED <<single, pair>>

\* Lines 80-90, run by the ticker of lines 29-33: the expired keys leave the
\* map; the list is not touched.
cleanup ==
  /\ ac' = [ac EXCEPT !.cache =
              [k \in {j \in DOMAIN ac.cache : ~Expired(ac, j)} |-> ac.cache[k]]]
  /\ ac' # ac
  /\ UNCHANGED <<single, pair>>

\* time.Now() advances.
Tick ==
  /\ ac.now < MaxClock
  /\ ac' = [ac EXCEPT !.now = ac.now + 1]
  /\ UNCHANGED <<single, pair>>

CacheNext == Set \/ Get \/ cleanup \/ Tick

CacheSpec == CacheInit /\ [][CacheNext]_vars

\* The keys of the order list, and how often the list names a key.
Listed(c) == {c.order[i] : i \in DOMAIN c.order}
Places(c, key) == Cardinality({i \in DOMAIN c.order : c.order[i] = key})

\* C37: the cache map never holds more keys than the capacity, and the order
\* list holds exactly the keys of the map, each of them once.
C37_CacheBounded ==
  /\ Cardinality(DOMAIN ac.cache) <= ac.capacity
  /\ Listed(ac) = DOMAIN ac.cache
  /\ \A k \in DOMAIN ac.cache : Places(ac, k) = 1

\* C37, the first part alone: the size of the map.
C37_SizeBounded == Cardinality(DOMAIN ac.cache) <= ac.capacity

\* ------------------------------------------- two devboxes of one namespace
\* Two devboxes of one namespace, each with its own passes (the worker pool
\* runs passes of different devboxes in parallel, one store call at a time
\* each).  Here an object is what the store keeps of it for ownership: kind,
\* name, controller owner, labels, and rev, the number of writes to it.  A
\* name is the sequence of the parts its hyphens separate, so that
\* devbox.Name + "-svc" is the name with one more part.
DevIds == {1, 2}

PairNames == {<<"x">>, <<"x", "pod">>, <<"x", "proxy">>}

\* Lines 92-96: the recommended labels carry the devbox's name.
RecLabels(d) == [name |-> d.name, proxy |-> FALSE]

\* helper.GenerateProxyPodLabels(devbox, runtime).
ProxyPodLabels(d) == [name |-> d.name, proxy |-> TRUE]

\* client.MatchingLabels(sel) on an object's labels.
MatchingLabels(labels, sel) ==
  labels = sel \/ (ProxyLabelsMatch /\ labels.name = sel.name)

\* The object names of a devbox (lines 170, 360, 527, 562, 587, 755, 931).
SecretName(d) == d.name
NodePortSvcName(d) == d.name \o <<"svc">>
PodSvcName(d) == d.name \o <<"pod", "svc">>
ProxySvcName(d) == d.name \o <<"proxy", "svc">>
ProxyDeploymentName(d) == d.name \o <<"proxy", "deployment">>
ProxyIngressName(d) == d.name \o <<"proxy", "ingress">>
PodName(d, n) == d.name \o <<"rand", n>>

NewObject(i, kind, name, labels) ==
  [kind |-> kind, name |-> name, owner |-> i, labels |-> labels, rev |-> 0]

\* r.Get by kind and name: the stored objects of that key (none or one).
Found(kind, name) == {o \in pair.objs : o.kind = kind /\ o.name = name}

\* r.Update of a stored object.
Updated(o) == (pair.objs \ {o}) \cup {[o EXCEPT !.rev = o.rev + 1]}

\* controllerutil.SetControllerReference never refusing (for comparison).
NeverOwned(o, i) == FALSE

\* controllerutil.SetControllerReference(devbox, obj): refused for an object
\* whose controller owner is another devbox.
AlreadyOwned(o, i) == o.owner # i

\* The pass of devbox i moves to position p with the store as os; e is the
\* error of the call.
Moved(i, p, os, e) ==
  pair' = [pair EXCEPT !.at[i] = p, !.objs = os, !.err[i] = e]

\* controllerutil.CreateOrUpdate with a mutate function ending in
\* SetControllerReference: create when absent; for a stored object the
\* mutate function runs first, and its error returns before any write.
CreateOrUpdate(i, kind, name, labels, next) ==
  LET found == Found(kind, name)
  IN IF found = {}
       THEN Moved(i, next, pair.objs \cup {NewObject(i, kind, name, labels)},
                  "nil")
     ELSE \E o \in found :
            IF AlreadyOwned(o, i)
              THEN Moved(i, "idle", pair.objs, "owned")
              ELSE Moved(i, next, Updated(o), "nil")

PairDevbox(name, nt, st) ==
  [name |-> name, net |-> nt, state |-> st, exists |-> TRUE,
   deleting |-> FALSE, pods |-> 0]

PairInit ==
  /\ SingleIdle
  /\ ac = NoCache
  /\ \E n1 \in PairNames, n2 \in PairNames, nt1 \in NetTypes,
        nt2 \in NetTypes, st1 \in States, st2 \in States :
       /\ n1 # n2
       /\ pair = [dev |-> <<PairDevbox(n1, nt1, st1),
                           PairDevbox(n2, nt2, st2)>>,
                  at |-> <<"idle", "idle">>, objs |-> {},
                  err |-> <<"nil", "nil">>, runs |-> <<0, 0>>]

\* Lines 88-98: a pass of devbox i starts; the deletion timestamp decides
\* between the forward steps and removeAll.
Reconcile(i) ==
  /\ pair.at[i] = "idle"
  /\ pair.dev[i].exists
  /\ pair.runs[i] < MaxPasses
  /\ pair' = [pair EXCEPT
                !.at[i] = IF pair.dev[i].deleting THEN "rmPods" ELSE "secret",
                !.err[i] = "nil", !.runs[i] = @ + 1]
  /\ UNCHANGED <<single, ac>>

\* Lines 457-462.
NetworkEntry(d) == IF d.net = "NodePort" THEN "svc" ELSE "podSvc"

\* Lines 168-228: a stored secret of the devbox's name is kept, or updated
\* by the backfill (no owner is looked at); an absent one is created.
syncSecret(i) ==
  /\ pair.at[i] = "secret"
  /\ LET d == pair.dev[i]
         found == Found("Secret", SecretName(d))
     IN IF found = {}
          THEN Moved(i, NetworkEntry(d),
                     pair.objs \cup
                       {NewObject(i, "Secret", SecretName(d), RecLabels(d))},
                     "nil")
        ELSE \E o \in found, backfill \in BOOLEAN :
               Moved(i, NetworkEntry(d),
                     IF backfill THEN Updated(o) ELSE pair.objs, "nil")
  /\ UNCHANGED <<single, ac>>

\* Lines 351-381.
syncNodePortNetwork(i) ==
  /\ pair.at[i] = "svc"
  /\ LET d == pair.dev[i]
     IN CreateOrUpdate(i, "Service", NodePortSvcName(d), RecLabels(d), "pod")
  /\ UNCHANGED <<single, ac>>

\* Lines 742-778.
syncPodSvc(i) ==
  /\ pair.at[i] = "podSvc"
  /\ LET d == pair.dev[i]
     IN CreateOrUpdate(i, "Service", PodSvcName(d), ProxyPodLabels(d),
                       "proxyPod")
  /\ UNCHANGED <<single, ac>>

\* Lines 712-740: Running, the deployment is created when absent; else a
\* stored deployment of that name is deleted.
syncProxyPod(i) ==
  /\ pair.at[i] = "proxyPod"
  /\ LET d == pair.dev[i]
         found == Found("Deployment", ProxyDeploymentName(d))
     IN IF d.state = "Running"
          THEN IF found = {}
                 THEN CreateOrUpdate(i, "Deployment", ProxyDeploymentName(d),
                                     ProxyPodLabels(d), "proxySvc")
                 ELSE Moved(i, "proxySvc", pair.objs, "nil")
        ELSE Moved(i, "proxySvc", pair.objs \ found, "nil")
  /\ UNCHANGED <<single, ac>>

\* Lines 542-580.
syncProxySvc(i) ==
  /\ pair.at[i] = "proxySvc"
  /\ LET d == pair.dev[i]
     IN CreateOrUpdate(i, "Service", ProxySvcName(d), ProxyPodLabels(d),
                       "proxyIngress")
  /\ UNCHANGED <<single, ac>>

\* Lines 492-540.
syncProxyIngress(i) ==
  /\ pair.at[i] = "proxyIngress"
  /\ LET d == pair.dev[i]
     IN CreateOrUpdate(i, "Ingress", ProxyIngressName(d), ProxyPodLabels(d),
                       "pod")
  /\ UNCHANGED <<single, ac>>

\* Lines 230-243, 781-805: the pods are listed by the recommended labels;
\* more than one is an error; Running without a pod creates one; not Running
\* with a pod removes its finalizer and deletes it.
syncPod(i) ==
  /\ pair.at[i] = "pod"
  /\ LET d == pair.dev[i]
         podList == {o \in pair.objs :
                       o.kind = "Pod" /\ MatchingLabels(o.labels, RecLabels(d))}
     IN IF Cardinality(podList) > 1
          THEN Moved(i, "idle", pair.objs, "err")
        ELSE IF d.state = "Running" /\ podList = {}
          THEN IF Found("Pod", PodName(d, d.pods + 1)) # {}
                 THEN Moved(i, "idle", pair.objs, "exists")
                 ELSE pair' = [pair EXCEPT
                        !.at[i] = "idle", !.err[i] = "nil",
                        !.dev[i].pods = @ + 1,
                        !.objs = @ \cup {NewObject(i, "Pod",
                                           PodName(d, d.pods + 1),
                                           RecLabels(d))}]
        ELSE IF d.state # "Running" /\ podList # {}
          THEN Moved(i, "idle", pair.objs \ podList, "nil")
        ELSE Moved(i, "idle", pair.objs, "nil")
  /\ UNCHANGED <<single, ac>>

\* Lines 846-852: DeleteAllOf by kind and labels.
deleteResourcesByLabels(kind, labels) ==
  {o \in pair.objs : ~(o.kind = kind /\ MatchingLabels(o.labels, labels))}

\* Lines 822-844: the pods, the services and the secrets carrying the
\* recommended labels are deleted, one call each.
removeAll(i) ==
  /\ LET d == pair.dev[i]
     IN \/ /\ pair.at[i] = "rmPods"
           /\ Moved(i, "rmServices",
                    deleteResourcesByLabels("Pod", RecLabels(d)), "nil")
        \/ /\ pair.at[i] = "rmServices"
           /\ Moved(i, "rmSecrets",
                    deleteResourcesByLabels("Service", RecLabels(d)), "nil")
        \/ /\ pair.at[i] = "rmSecrets"
           /\ Moved(i, "rmFinalizer",
                    deleteResourcesByLabels("Secret", RecLabels(d)), "nil")
  /\ UNCHANGED <<single, ac>>

\* Lines 118-124: the finalizer is removed and the store drops the devbox.
removeFinalizer(i) ==
  /\ pair.at[i] = "rmFinalizer"
  /\ pair' = [pair EXCEPT !.at[i] = "idle", !.dev[i].exists = FALSE]
  /\ UNCHANGED <<single, ac>>

\* The tenant changes the state or the network type of devbox i, or deletes
\* it, between two passes.
PairTenantEdit(i) ==
  /\ pair.at[i] = "idle"
  /\ pair.dev[i].exists
  /\ ~pair.dev[i].deleting
  /\ pair.runs[i] < MaxPasses
  /\ \/ \E st \in States \ {pair.dev[i].state} :
          pair' = [pair EXCEPT !.dev[i].state = st]
     \/ \E nt \in NetTypes \ {pair.dev[i].net} :
          pair' = [pair EXCEPT !.dev[i].net = nt]
     \/ pair' = [pair EXCEPT !.dev[i].deleting = TRUE]
  /\ UNCHANGED <<single, ac>>

\* The platform deletes the objects whose controller owner is gone.
PairGarbageCollect(i) ==
  /\ ~pair.dev[i].exists
  /\ \E o \in pair.objs : o.owner = i
  /\ pair' = [pair EXCEPT !.objs = {o \in @ : o.owner # i}]
  /\ UNCHANGED <<single, ac>>

PairNext ==
  \E i \in DevIds :
    \/ Reconcile(i)
    \/ syncSecret(i)
    \/ syncNodePortNetwork(i)
    \/ syncPodSvc(i)
    \/ syncProxyPod(i)
    \/ syncProxySvc(i)
    \/ syncProxyIngress(i)
    \/ syncPod(i)
    \/ removeAll(i)
    \/ removeFinalizer(i)
    \/ PairTenantEdit(i)
    \/ PairGarbageCollect(i)

PairSpec == PairInit /\ [][PairNext]_vars

\* A step of the pass of devbox i.
PassStep(i) == pair.dev # << >> /\ pair'.at[i] # pair.at[i]

\* The objects of the other devbox are stored as they were, and what the
\* step has added is owned by devbox i.
OthersUntouched(i) ==
  /\ \A o \in pair.objs : o.owner # i => o \in pair'.objs
  /\ \A o \in pair'.objs \ pair.objs : o.owner = i

\* C36: no step of a pass of one devbox creates, updates or deletes an
\* object that belongs to the other devbox of the namespace, whatever the
\* two names, network types and states, and however the passes interleave.
C36_NoCrossDevboxWrites ==
  [][\A i \in DevIds : PassStep(i) => OthersUntouched(i)]_vars

\* A pass of one devbox has met a service of its own service name that the
\* other devbox owns, was refused, and the service is stored.
C36_Witness ==
  /\ pair.dev # << >>
  /\ \E i \in DevIds :
       /\ pair.err[i] = "owned"
       /\ \E o \in pair.objs :
            /\ o.owner # i
            /\ o.kind = "Service"
            /\ o.name \in {NodePortSvcName(pair.dev[i]), PodSvcName(pair.dev[i]),
                           ProxySvcName(pair.dev[i])}
       /\ \E o \in pair.objs : o.owner = i
====
